---- MODULE Spec2Model ----
\* Thea: the ingest-and-transcode orchestrator.
\* The queue service, the queue synchronisation tick and the lifecycle are
\* translated from internal/thea.go and internal/queue_service.go (kept in
\* src/unnamed/part_002); the queue manager, the worker pool and the ffmpeg
\* commander they call are not part of the sources and follow spec.md
\* (sections 4.B, 4.C and 4.F).
EXTENDS Integers, Sequences, FiniteSets, TLC

\* ------------------------------------------------------------------ bounds
MaxPaths   == 3    \* files the import directory can hold
MaxItems   == 3    \* ItemIDs handed out in one run
MaxTime    == 4    \* clock readings, in minutes
MaxFiles   == 1    \* files the import directory sees when every operation runs
MaxPoolFiles == 2  \* files the import directory sees when only the pool runs
NumTargets == 2    \* transcode targets a workflow can select
NumWorkers == 4    \* workers in the pool
MaxConcurrentEncoders == 2   \* the commander's concurrency limit (config.Format)
MaxKey     == 2    \* primary keys the database hands out
NumTags    == 2    \* profile tags the callers use
NumClients == 2    \* goroutines calling the profile list at once
MaxProfiles == 3   \* profiles the list can hold
MaxNameLen == 5    \* characters in an item's name
NumSleepers == 2   \* workers of the pool that sleep and are woken up
MaxWorkflowValue == 2
NumLabels == 3
MaxUpdates == 3

\* ------------------------------------------------------- program constants
\* time.Minute*2, in minutes
ModtimeThreshold == 2

\* item stages, in pipeline order
Import    == 0
Title     == 1
Omdb      == 2
Database  == 3
Transcode == 4
Finish    == 5

Paths    == 1..MaxPaths
ItemIDs  == 1..MaxItems
Targets  == 1..NumTargets
Workers  == 1..NumWorkers
NoFile   == -1
NoItem   == 0

ItemStatuses ==
    {"Pending", "Processing", "Paused", "NeedsAttention", "NeedsResolving",
     "Cancelling", "Cancelled", "Completed"}
TaskStatuses ==
    {"None", "Queued", "Running", "Suspended", "Complete", "Failed", "Cancelled"}
TaskTerminal == {"Complete", "Failed", "Cancelled"}
TaskLive     == {"Running", "Suspended"}

VARIABLES
    queue,    \* the queue's order: a sequence of ItemIDs
    items,    \* ItemID -> [path, stage, status], the item records
    nextID,   \* the next ItemID Push assigns
    fs,       \* path -> modification time of the file, NoFile when absent
    now,      \* the clock
    cache,    \* the persisted exclusion list: paths of completed items
    holder,   \* worker -> the item it picked, NoItem when idle
    tasks,    \* ItemID -> target -> status of the transcode task
    excluded, \* the exclusion list in memory, as the last Reload left it
    life,     \* the orchestrator: position in Start/Stop, context, wait-group
    lastOp,   \* the last operation: [op, id, err], and what a queue sync dropped
    exported, \* ItemIDs whose model ExportItem saved to the database
    wake,     \* the workers' sleep and wake-up signals
    store,    \* the store orchestrator: a SaveEpisode call and the database
    profiles, \* the profile list and the calls in flight on it
    title,    \* a FormatTitle call: the name and what it returned
    workflow, \* the store orchestrator: an UpdateWorkflow call and the workflow row
    docker,   \* the docker manager: containers, wait-group, monitors, Shutdown
    updates,  \* the processor's update stream: pending IDs and what was delivered
    promote   \* PromoteItem calls in flight between their lookup and their Reorder

vars == <<queue, items, nextID, fs, now, cache, holder, tasks, excluded, life, lastOp,
          exported, wake, store, profiles, title, workflow, docker, updates, promote>>

\* the parts of the program with a specification of their own
services == <<workflow, docker, updates, promote>>

\* what the queue service, the tick, the pool, the commander and the
\* lifecycle leave alone
others == <<exported, wake, store, profiles, title, services>>

\* the pipeline's own state
pipeline == <<queue, items, nextID, fs, now, cache, holder, tasks, excluded, life>>

\* ----------------------------------------------------------------- helpers
Range(s) == {s[i] : i \in DOMAIN s}

\* Go's s[lo:hi]
Slice(s, lo, hi) == SubSeq(s, lo + 1, hi)

IsPermutationOf(s, S) ==
    /\ Len(s) = Cardinality(S)
    /\ Range(s) = S

Orderings(S) ==
    {s \in [1..Cardinality(S) -> S] : Range(s) = S}

NoRecord == [path |-> 0, stage |-> Import, status |-> "Pending"]
NoTasks  == [t \in Targets |-> "None"]

InQueue(id) == id \in Range(queue)

Op(name, id, err) == [op |-> name, id |-> id, err |-> err]

\* worker w is bound to one stage: Title_Parser, OMDB_Handler,
\* Database_Committer, then again from the start
WorkerStage(w) == Title + ((w - 1) % 3)

\* --------------------------------------------------- queue manager (4.B)
\* FindById: the 0-based index of id, -1 on a miss
FindById(id) ==
    IF \E i \in DOMAIN queue : queue[i] = id
    THEN (CHOOSE i \in DOMAIN queue : queue[i] = id) - 1
    ELSE -1

\* Reorder: newOrder must be a permutation of the current ItemIDs
ReorderOk(newOrder) == IsPermutationOf(newOrder, Range(queue))

Reorder(newOrder) == IF ReorderOk(newOrder) THEN newOrder ELSE queue

\* the status machine of 4.B
LegalTransition(from, to) ==
    \/ from = "Pending"        /\ to \in {"Processing", "Cancelled"}
    \/ from = "Processing"     /\ to \in {"Pending", "NeedsAttention", "NeedsResolving",
                                          "Cancelling", "Completed", "Paused"}
    \/ from = "Paused"         /\ to = "Processing"
    \/ from = "NeedsResolving" /\ to \in {"Pending", "Cancelled"}
    \/ from = "Cancelling"     /\ to = "Cancelled"

\* Item.SetStatus: a rejected transition leaves the item as it was
SetStatus(it, s) ==
    IF LegalTransition(it.status, s) THEN [it EXCEPT !.status = s] ELSE it

\* Item.SetPaused
SetPaused(it, paused) ==
    SetStatus(it, IF paused THEN "Paused" ELSE "Processing")

\* AdvanceStage: from Processing to the next stage, Pending again; the
\* Import hold is released from Pending (4.G step 5); Transcode is advanced
\* by the commander to Finish/Completed
AdvanceStage(it) ==
    IF it.status = "Processing" \/ (it.stage = Import /\ it.status = "Pending")
    THEN IF it.stage >= Transcode
         THEN [it EXCEPT !.stage = Finish, !.status = "Completed"]
         ELSE [it EXCEPT !.stage = it.stage + 1, !.status = "Pending"]
    ELSE it

\* Reload: the persisted cache of completed paths, read back
Reload == cache

\* Pick: the first item in queue order at the stage and Pending, NoItem if none
Pick(stage) ==
    LET hits == {i \in DOMAIN queue :
                    items[queue[i]].stage = stage /\ items[queue[i]].status = "Pending"}
    IN  IF hits = {} THEN NoItem
        ELSE queue[CHOOSE i \in hits : \A j \in hits : i <= j]

\* -------------------------------------------------- ffmpeg commander (4.F)
GetInstancesForItem(id) == {t \in Targets : tasks[id][t] # "None"}

\* instance.Cancel / Pause / Resume
InstanceCancel(st) == IF st \in {"Queued", "Running", "Suspended"} THEN "Cancelled" ELSE st
InstancePause(st)  == IF st = "Running" THEN "Suspended" ELSE st
InstanceResume(st) == IF st = "Suspended" THEN "Running" ELSE st

\* NewThea: nothing started, the context live, the wait-group empty
\* the exit status of a process that has not terminated
NoExit == -1

\* the orchestrator as NewThea leaves it, inside a process whose main
\* goroutine has started the gateways and Thea and blocks on its exit channel
NewLife ==
    [pc |-> "new", ctx |-> "live", wg |-> 0, pool |-> "idle",
     commander |-> "idle", adapters |-> "open",
     signal |-> FALSE, main |-> "wait_signal", gateways |-> "open",
     exit |-> NoExit]

TypeOK ==
    /\ queue \in Seq(ItemIDs)
    /\ excluded \subseteq cache
    /\ life.wg \in 0..2
    /\ life.signal \in BOOLEAN
    /\ life.main \in {"wait_signal", "wait_group", "exited"}
    /\ life.gateways \in {"open", "closed"}
    /\ life.exit \in {NoExit, 0, 1}
    /\ nextID \in 1..(MaxItems + 1)
    /\ now \in 0..MaxTime
    /\ cache \subseteq Paths
    /\ holder \in [Workers -> ItemIDs \cup {NoItem}]
    /\ tasks \in [ItemIDs -> [Targets -> TaskStatuses]]
    /\ \A id \in ItemIDs : items[id].status \in ItemStatuses

\* a part of the program that is not in use
Idle == [pc |-> "idle"]

\* no UpdateWorkflow call, no docker manager, no update stream and no
\* PromoteItem call in flight
ServicesIdle ==
    /\ workflow = Idle
    /\ docker = Idle
    /\ updates = Idle
    /\ promote = Idle

InitPipeline ==
    /\ queue = <<>>
    /\ items = [id \in ItemIDs |-> NoRecord]
    /\ nextID = 1
    /\ fs = [p \in Paths |-> NoFile]
    /\ now = 0
    /\ cache = {}
    /\ holder = [w \in Workers |-> NoItem]
    /\ tasks = [id \in ItemIDs |-> NoTasks]
    /\ excluded = {}
    /\ life = NewLife
    /\ lastOp = Op("NewThea", NoItem, FALSE)
    /\ exported = {}

Init ==
    /\ InitPipeline
    /\ wake = Idle
    /\ store = Idle
    /\ profiles = Idle
    /\ title = Idle
    /\ ServicesIdle

\* ------------------------------------------------------------ environment
\* the clock moves on by a minute
ClockAdvance ==
    /\ now < MaxTime
    /\ now' = now + 1
    /\ lastOp' = Op("ClockAdvance", NoItem, FALSE)
    /\ UNCHANGED <<queue, items, nextID, fs, cache, holder, tasks, excluded, life, others>>

\* a file is created in, or written again under, the import directory
FileWrite(p) ==
    /\ fs[p] # now
    /\ fs' = [fs EXCEPT ![p] = now]
    /\ lastOp' = Op("FileWrite", NoItem, FALSE)
    /\ UNCHANGED <<queue, items, nextID, now, cache, holder, tasks, excluded, life, others>>

\* a file disappears from the import directory
FileDelete(p) ==
    /\ fs[p] # NoFile
    /\ fs' = [fs EXCEPT ![p] = NoFile]
    /\ lastOp' = Op("FileDelete", NoItem, FALSE)
    /\ UNCHANGED <<queue, items, nextID, now, cache, holder, tasks, excluded, life, others>>

\* ---------------------------------------------------------- queue service
\* GetItem(itemID): the item, or an error when no item has this ID
GetItem(itemID) ==
    /\ lastOp' = Op("GetItem", itemID, FindById(itemID) = -1)
    /\ UNCHANGED <<queue, items, nextID, fs, now, cache, holder, tasks, excluded, life, others>>

\* ReorderQueue without the queue manager's check of the order
ReorderQueueResult_Unchecked(newOrder) ==
    [queue |-> newOrder, err |-> FALSE]

\* ReorderQueue(newOrder): an error when the queue manager rejects the order
ReorderQueueResult(newOrder) ==
    [queue |-> Reorder(newOrder), err |-> ~ReorderOk(newOrder)]

ReorderQueue(newOrder) ==
    LET r == ReorderQueueResult(newOrder) IN
    /\ queue' = r.queue
    /\ lastOp' = Op("ReorderQueue", NoItem, r.err)
    /\ UNCHANGED <<items, nextID, fs, now, cache, holder, tasks, excluded, life, others>>

\* PromoteOrder with newOrder[idx:] for newOrder[idx+1:]
PromoteOrder_KeepsPromoted(newOrder, idx) ==
    IF idx = Len(newOrder) - 1
    THEN <<newOrder[idx + 1]>> \o Slice(newOrder, 0, Len(newOrder) - 1)
    ELSE LET extracted == <<newOrder[idx + 1]>> \o Slice(newOrder, 0, idx)
         IN  extracted \o Slice(newOrder, idx, Len(newOrder))

\* the order PromoteItem builds for the item at 0-based index idx
PromoteOrder(newOrder, idx) ==
    IF idx = Len(newOrder) - 1
    THEN <<newOrder[idx + 1]>> \o Slice(newOrder, 0, Len(newOrder) - 1)
    ELSE LET extracted == <<newOrder[idx + 1]>> \o Slice(newOrder, 0, idx)
         IN  extracted \o Slice(newOrder, idx + 1, Len(newOrder))

PromoteItem(itemID) ==
    LET idx == FindById(itemID) IN
    /\ IF idx = -1
       THEN /\ queue' = queue
            /\ lastOp' = Op("PromoteItem", itemID, TRUE)
       ELSE IF idx = 0
       THEN /\ queue' = queue
            /\ lastOp' = Op("PromoteItem", itemID, FALSE)
       ELSE LET newOrder == PromoteOrder(queue, idx) IN
            /\ queue' = Reorder(newOrder)
            /\ lastOp' = Op("PromoteItem", itemID, ~ReorderOk(newOrder))
    /\ UNCHANGED <<items, nextID, fs, now, cache, holder, tasks, excluded, life, others>>

\* PromoteItem as its three calls on the queue, with other goroutines
\* running in between: FindById, then Items, then Reorder
PromoteItemFind(itemID) ==
    LET idx == FindById(itemID) IN
    /\ promote.pc = "idle"
    /\ IF idx = -1 \/ idx = 0
       THEN /\ promote' = promote
            /\ lastOp' = Op("PromoteItem", itemID, idx = -1)
       ELSE /\ promote' = [pc |-> "found", id |-> itemID, idx |-> idx, order |-> <<>>]
            /\ lastOp' = Op("FindById", itemID, FALSE)
    /\ UNCHANGED <<pipeline, exported, wake, store, profiles, title,
                   workflow, docker, updates>>

\* the loop over GetAllItems collecting the ItemIDs in queue order
PromoteItemList ==
    /\ promote.pc = "found"
    /\ promote' = [promote EXCEPT !.pc = "listed", !.order = queue]
    /\ lastOp' = Op("GetAllItems", promote.id, FALSE)
    /\ UNCHANGED <<pipeline, exported, wake, store, profiles, title,
                   workflow, docker, updates>>

\* what the end of a PromoteItem call leaves in the log; panicked when
\* the index found earlier is outside the list
PromoteOp(id, err, panicked) ==
    [op |-> "PromoteItem", id |-> id, err |-> err, panicked |-> panicked]

\* the new order is built from the index found earlier and handed to Reorder
PromoteItemReorder ==
    /\ promote.pc = "listed"
    /\ promote' = Idle
    /\ IF promote.idx >= Len(promote.order)
       THEN /\ queue' = queue
            /\ lastOp' = PromoteOp(promote.id, TRUE, TRUE)
       ELSE LET newOrder == PromoteOrder(promote.order, promote.idx) IN
            /\ queue' = Reorder(newOrder)
            /\ lastOp' = PromoteOp(promote.id, ~ReorderOk(newOrder), FALSE)
    /\ UNCHANGED <<items, nextID, fs, now, cache, holder, tasks, excluded, life,
                   exported, wake, store, profiles, title, workflow, docker, updates>>

\* CancelSwitch sending a cancelled item back to the start of the pipeline
CancelSwitch_RestartsStage(it) ==
    IF it.status \in {"Cancelling", "Completed"}
    THEN [item |-> it, err |-> TRUE]
    ELSE [item |-> [it EXCEPT !.stage = Import], err |-> FALSE]

\* CancelSwitch marking a busy item Cancelled at once
CancelSwitch_BusyCancelled(it) ==
    IF it.status \in {"Cancelling", "Completed"}
    THEN [item |-> it, err |-> TRUE]
    ELSE IF it.status \in {"NeedsResolving", "Processing"}
    THEN [item |-> [it EXCEPT !.status = "Cancelled"], err |-> FALSE]
    ELSE [item |-> it, err |-> FALSE]

\* CancelSwitch marking a finished item Cancelled
CancelSwitch_CancelsCompleted(it) ==
    CASE it.status = "Cancelled"      -> [item |-> it, err |-> FALSE]
      [] it.status = "Cancelling"     -> [item |-> it, err |-> TRUE]
      [] it.status = "Pending"        -> [item |-> it, err |-> FALSE]
      [] it.status = "NeedsResolving" -> [item |-> SetStatus(it, "Cancelled"), err |-> FALSE]
      [] it.status = "Completed"      -> [item |-> [it EXCEPT !.status = "Cancelled"],
                                          err |-> FALSE]
      [] it.status = "NeedsAttention" -> [item |-> it, err |-> FALSE]
      [] it.status = "Processing"     -> [item |-> SetStatus(it, "Cancelling"), err |-> FALSE]
      [] OTHER                        -> [item |-> it, err |-> FALSE]

\* the switch of CancelItem over the item's status: Go's cases do not fall
\* through, so an empty case does nothing
CancelSwitch(it) ==
    CASE it.status = "Cancelled"      -> [item |-> it, err |-> FALSE]
      [] it.status = "Cancelling"     -> [item |-> it, err |-> TRUE]
      [] it.status = "Pending"        -> [item |-> it, err |-> FALSE]
      [] it.status = "NeedsResolving" -> [item |-> SetStatus(it, "Cancelled"), err |-> FALSE]
      [] it.status = "Completed"      -> [item |-> it, err |-> TRUE]
      [] it.status = "NeedsAttention" -> [item |-> it, err |-> FALSE]
      [] it.status = "Processing"     -> [item |-> SetStatus(it, "Cancelling"), err |-> FALSE]
      [] OTHER                        -> [item |-> it, err |-> FALSE]

\* CancelItem whose loop over the instances misses the first one
CancelItemResult_SkipsInstance(its, tks, itemID) ==
    LET sw == CancelSwitch(its[itemID]) IN
    IF sw.err
    THEN [items |-> its, tasks |-> tks, err |-> TRUE]
    ELSE [items |-> [its EXCEPT ![itemID] = sw.item],
          tasks |-> [tks EXCEPT ![itemID] =
                        [t \in Targets |-> IF t = 1 THEN tks[itemID][t]
                                           ELSE InstanceCancel(tks[itemID][t])]],
          err   |-> FALSE]

\* what CancelItem leaves behind: [items, tasks, err]
CancelItemResult(its, tks, itemID) ==
    LET sw == CancelSwitch(its[itemID]) IN
    IF sw.err
    THEN [items |-> its, tasks |-> tks, err |-> TRUE]
    ELSE [items |-> [its EXCEPT ![itemID] = sw.item],
          tasks |-> [tks EXCEPT ![itemID] = [t \in Targets |-> InstanceCancel(tks[itemID][t])]],
          err   |-> FALSE]

\* CancelItem without the lookup of the item in the queue
CancelItem_NoLookup(itemID) ==
    LET r == CancelItemResult(items, tasks, itemID) IN
    /\ items' = r.items
    /\ tasks' = r.tasks
    /\ lastOp' = Op("CancelItem", itemID, r.err)
    /\ UNCHANGED <<queue, nextID, fs, now, cache, holder, excluded, life, others>>

CancelItem(itemID) ==
    /\ IF FindById(itemID) = -1
       THEN /\ UNCHANGED <<items, tasks>>
            /\ lastOp' = Op("CancelItem", itemID, TRUE)
       ELSE LET r == CancelItemResult(items, tasks, itemID) IN
            /\ items' = r.items
            /\ tasks' = r.tasks
            /\ lastOp' = Op("CancelItem", itemID, r.err)
    /\ UNCHANGED <<queue, nextID, fs, now, cache, holder, excluded, life, others>>

\* PauseItem whose loop over the instances misses the first one
PauseItemResult_SkipsInstance(it, tk) ==
    [item  |-> SetPaused(it, TRUE),
     tasks |-> [t \in Targets |-> IF t = 1 THEN tk[t] ELSE InstancePause(tk[t])]]

\* what PauseItem leaves behind: [item, tasks]
PauseItemResult(it, tk) ==
    [item |-> SetPaused(it, TRUE), tasks |-> [t \in Targets |-> InstancePause(tk[t])]]

PauseItem(itemID) ==
    /\ IF FindById(itemID) = -1
       THEN /\ UNCHANGED <<items, tasks>>
            /\ lastOp' = Op("PauseItem", itemID, TRUE)
       ELSE LET r == PauseItemResult(items[itemID], tasks[itemID]) IN
            /\ items' = [items EXCEPT ![itemID] = r.item]
            /\ tasks' = [tasks EXCEPT ![itemID] = r.tasks]
            /\ lastOp' = Op("PauseItem", itemID, FALSE)
    /\ UNCHANGED <<queue, nextID, fs, now, cache, holder, excluded, life, others>>

\* ResumeItem without the check of the item's status
ResumeItemResult_NoStatusCheck(it, tk) ==
    [item  |-> SetPaused(it, FALSE),
     tasks |-> IF \E t \in Targets : tk[t] \notin {"None", "Suspended"}
               THEN tk
               ELSE [t \in Targets |-> InstanceResume(tk[t])],
     err   |-> FALSE]

\* what ResumeItem leaves behind: [item, tasks, err]; the instances are
\* resumed only when every one of them is suspended
ResumeItemResult(it, tk) ==
    IF it.status # "Paused"
    THEN [item |-> it, tasks |-> tk, err |-> TRUE]
    ELSE [item  |-> SetPaused(it, FALSE),
          tasks |-> IF \E t \in Targets : tk[t] \notin {"None", "Suspended"}
                    THEN tk
                    ELSE [t \in Targets |-> InstanceResume(tk[t])],
          err   |-> FALSE]

ResumeItem(itemID) ==
    /\ IF FindById(itemID) = -1
       THEN /\ UNCHANGED <<items, tasks>>
            /\ lastOp' = Op("ResumeItem", itemID, TRUE)
       ELSE LET r == ResumeItemResult(items[itemID], tasks[itemID]) IN
            /\ items' = [items EXCEPT ![itemID] = r.item]
            /\ tasks' = [tasks EXCEPT ![itemID] = r.tasks]
            /\ lastOp' = Op("ResumeItem", itemID, r.err)
    /\ UNCHANGED <<queue, nextID, fs, now, cache, holder, excluded, life, others>>

\* AdvanceItem: advance the stage, then wake the workers up
AdvanceItem(it) == AdvanceStage(it)

\* PickItem handing out the first item of the stage whatever its status
PickItem_NoStatusCheck(stage) ==
    LET hits == {i \in DOMAIN queue :
                    /\ items[queue[i]].stage = stage
                    /\ items[queue[i]].status \in {"Pending", "Processing"}}
    IN  IF hits = {} THEN NoItem
        ELSE queue[CHOOSE i \in hits : \A j \in hits : i <= j]

\* PickItem: the queue manager's Pick
PickItem(stage) == Pick(stage)

\* ExportItem: refuses an item that is not Processing at the Database stage,
\* an episode without its season and episode numbers (~numbered) and an item
\* with an unfinished encoder instance; otherwise it saves the model, and
\* fails when the save does (~saved)
ExportItemFails_IgnoresInstances(id, numbered, saved) ==
    \/ items[id].stage # Database
    \/ items[id].status # "Processing"
    \/ ~numbered
    \/ ~saved

ExportItemFails(id, numbered, saved) ==
    \/ items[id].stage # Database
    \/ items[id].status # "Processing"
    \/ ~numbered
    \/ \E t \in GetInstancesForItem(id) : tasks[id][t] # "Complete"
    \/ ~saved

\* what a call of ExportItem leaves in the log: the item, whether its season
\* and episode numbers were usable, and whether an error came back
ExportOp(id, numbered, err) ==
    [op |-> "ExportItem", id |-> id, err |-> err, numbered |-> numbered]

ExportItem(id, numbered, saved) ==
    /\ items[id].path # 0
    /\ exported' = IF ExportItemFails(id, numbered, saved)
                   THEN exported ELSE exported \cup {id}
    /\ lastOp' = ExportOp(id, numbered, ExportItemFails(id, numbered, saved))
    /\ UNCHANGED <<pipeline, wake, store, profiles, title, services>>

\* -------------------------------------------- the queue synchronisation tick
\* discoverItems: the paths under the import directory
DiscoverItems == {p \in Paths : fs[p] # NoFile}

\* Push taking every discovered path
PushablePaths_All(present) == present

\* Push without the check for a path already in the queue
PushablePaths_IgnoresQueue(present) == present \ cache

\* Push without the check of the exclusion list
PushablePaths_IgnoresExclusions(present) ==
    present \ {items[id].path : id \in Range(queue)}

\* Push: a path already queued or excluded is refused; ids are the ItemIDs
\* the pushed paths get, in the order Go's map iteration yields them
PushablePaths(present) ==
    present \ ({items[id].path : id \in Range(queue)} \cup cache)

\* the hold without the check of the item's stage
PassesModtimeHold_AnyStage(it) ==
    /\ fs[it.path] # NoFile
    /\ now - fs[it.path] > ModtimeThreshold

\* the hold without the threshold
PassesModtimeHold_NoThreshold(it) ==
    /\ it.stage = Import
    /\ fs[it.path] # NoFile

\* the hold with >= for >
PassesModtimeHold_Inclusive(it) ==
    /\ it.stage = Import
    /\ fs[it.path] # NoFile
    /\ now - fs[it.path] >= ModtimeThreshold

\* the modification-time hold of the Import stage
PassesModtimeHold(it) ==
    /\ it.stage = Import
    /\ fs[it.path] # NoFile
    /\ now - fs[it.path] > ModtimeThreshold

\* the visitor of the final ForEach
CheckModtime(it) == IF PassesModtimeHold(it) THEN AdvanceItem(it) ELSE it

\* what a run of synchroniseQueue leaves in the log: the items its Filter
\* dropped, with the status CancelItem left them in, and whether the run
\* follows another run directly
SyncOp(removed, again) ==
    [op |-> "SynchroniseQueue", id |-> NoItem, err |-> FALSE,
     removed |-> removed, again |-> again]

\* an item record is kept while the queue or a worker refers to it
Referenced(q, h, id) == id \in Range(q) \/ \E w \in Workers : h[w] = id

SynchroniseQueueStep ==
    LET presentItems == DiscoverItems
        fresh        == PushablePaths(presentItems)
        n            == Cardinality(fresh)
    IN
    /\ nextID + n - 1 <= MaxItems
    /\ \E ord \in Orderings(fresh) :
         LET pushedQ  == queue \o [i \in 1..n |-> nextID + i - 1]
             pushedI  == [id \in ItemIDs |->
                            IF id \in nextID..(nextID + n - 1)
                            THEN [path |-> ord[id - nextID + 1], stage |-> Import,
                                  status |-> "Pending"]
                            ELSE items[id]]
             gone     == {id \in Range(pushedQ) : pushedI[id].path \notin presentItems}
             keptQ    == SelectSeq(pushedQ, LAMBDA id : id \notin gone)
             cancelI  == [id \in ItemIDs |->
                            IF id \in gone
                            THEN CancelItemResult(pushedI, tasks, id).items[id]
                            ELSE pushedI[id]]
             cancelT  == [id \in ItemIDs |->
                            IF id \in gone
                            THEN CancelItemResult(pushedI, tasks, id).tasks[id]
                            ELSE tasks[id]]
         IN
         /\ queue' = keptQ
         /\ items' = [id \in ItemIDs |->
                        IF id \in Range(keptQ) THEN CheckModtime(cancelI[id])
                        ELSE IF Referenced(keptQ, holder, id) THEN cancelI[id]
                        ELSE NoRecord]
         /\ tasks' = cancelT
         /\ nextID' = nextID + n
         /\ lastOp' = SyncOp({[id |-> id, status |-> cancelI[id].status] : id \in gone},
                             lastOp.op = "SynchroniseQueue")
    /\ excluded' = Reload
    /\ UNCHANGED <<fs, now, cache, holder, life>>

\* synchroniseQueue, on each tick of the queue-sync ticker
SynchroniseQueue == SynchroniseQueueStep /\ UNCHANGED others

\* ------------------------------------------------------ worker pool (4.C)
\* the task's item is released: a Cancelling item becomes Cancelled
Release(it) == IF it.status = "Cancelling" THEN SetStatus(it, "Cancelled") ELSE it

Dropped(id, it) == IF InQueue(id) THEN it ELSE NoRecord

\* a worker picks the next item of its stage
WorkerPick(w) ==
    LET id == PickItem(WorkerStage(w)) IN
    /\ holder[w] = NoItem
    /\ id # NoItem
    /\ items' = [items EXCEPT ![id] = SetStatus(@, "Processing")]
    /\ holder' = [holder EXCEPT ![w] = id]
    /\ lastOp' = Op("WorkerPick", id, FALSE)
    /\ UNCHANGED <<queue, nextID, fs, now, cache, tasks, excluded, life, others>>

\* the worker's task returned: OnComplete is AdvanceItem
WorkerComplete(w) ==
    LET id == holder[w] IN
    /\ id # NoItem
    /\ items' = [items EXCEPT ![id] = Dropped(id, Release(AdvanceItem(@)))]
    /\ holder' = [holder EXCEPT ![w] = NoItem]
    /\ lastOp' = Op("WorkerComplete", id, FALSE)
    /\ UNCHANGED <<queue, nextID, fs, now, cache, tasks, excluded, life, others>>

\* the worker's task failed: a fatal error parks the item in NeedsAttention,
\* a recoverable one in NeedsResolving
WorkerFail(w, fatal) ==
    LET id == holder[w]
        to == IF fatal THEN "NeedsAttention" ELSE "NeedsResolving"
    IN
    /\ id # NoItem
    /\ items' = [items EXCEPT ![id] = Dropped(id, Release(SetStatus(@, to)))]
    /\ holder' = [holder EXCEPT ![w] = NoItem]
    /\ lastOp' = Op("WorkerFail", id, TRUE)
    /\ UNCHANGED <<queue, nextID, fs, now, cache, tasks, excluded, life, others>>

\* ----------------------------------- workers asleep and woken up (4.C)
\* the pool's workers as they start, each about to call Pick; no wake-up
\* signal pending; the tick not inside AdvanceItem
Sleepers == 1..NumSleepers

AllAwake ==
    [pc   |-> "on",
     st   |-> [w \in Sleepers |-> "poll"],
     sig  |-> [w \in Sleepers |-> FALSE],
     tick |-> "idle"]

\* WakeupWorkers: a wake-up signal is left for every worker
WakeupWorkers(sig) == [w \in Sleepers |-> TRUE]

\* AdvanceItem without its call of WakeupWorkers
AdvanceItemWakes_Never(sig) == sig

\* AdvanceItem, second statement: workerPool().WakeupWorkers()
AdvanceItemWakes(sig) == WakeupWorkers(sig)

\* the worker loop, step 1: Pick; with nothing to pick the worker goes on to
\* block on its wake-up signal
WakePick(w) ==
    LET id == PickItem(WorkerStage(w)) IN
    /\ wake.pc = "on"
    /\ wake.st[w] = "poll"
    /\ IF id = NoItem
       THEN /\ wake' = [wake EXCEPT !.st[w] = "empty"]
            /\ UNCHANGED <<items, holder>>
       ELSE /\ wake' = [wake EXCEPT !.st[w] = "busy"]
            /\ items' = [items EXCEPT ![id] = SetStatus(@, "Processing")]
            /\ holder' = [holder EXCEPT ![w] = id]
    /\ lastOp' = Op("WakePick", id, id = NoItem)
    /\ UNCHANGED <<queue, nextID, fs, now, cache, tasks, excluded, life,
                   exported, store, profiles, title, services>>

\* the worker blocks on its wake-up signal: a pending signal is taken at
\* once, otherwise the worker sleeps
WakeSleep(w) ==
    /\ wake.pc = "on"
    /\ wake.st[w] = "empty"
    /\ wake' = IF wake.sig[w]
               THEN [wake EXCEPT !.st[w] = "poll", !.sig[w] = FALSE]
               ELSE [wake EXCEPT !.st[w] = "asleep"]
    /\ lastOp' = Op("WakeSleep", NoItem, FALSE)
    /\ UNCHANGED <<pipeline, exported, store, profiles, title, services>>

\* a sleeping worker receives its wake-up signal and goes back to Pick
WakeReceive(w) ==
    /\ wake.pc = "on"
    /\ wake.st[w] = "asleep"
    /\ wake.sig[w]
    /\ wake' = [wake EXCEPT !.st[w] = "poll", !.sig[w] = FALSE]
    /\ lastOp' = Op("WakeReceive", NoItem, FALSE)
    /\ UNCHANGED <<pipeline, exported, store, profiles, title, services>>

\* the worker's task returned, OnComplete is AdvanceItem; its first
\* statement: queue().AdvanceStage(item)
WakeAdvance(w) ==
    /\ wake.pc = "on"
    /\ wake.st[w] = "busy"
    /\ items' = [items EXCEPT ![holder[w]] = AdvanceStage(@)]
    /\ wake' = [wake EXCEPT !.st[w] = "advanced"]
    /\ lastOp' = Op("AdvanceStage", holder[w], FALSE)
    /\ UNCHANGED <<queue, nextID, fs, now, cache, holder, tasks, excluded, life,
                   exported, store, profiles, title, services>>

\* AdvanceItem's second statement run by a worker, which then goes back to
\* Pick
WakeByWorker(w) ==
    /\ wake.pc = "on"
    /\ wake.st[w] = "advanced"
    /\ wake' = [wake EXCEPT !.st[w] = "poll", !.sig = AdvanceItemWakes(@)]
    /\ holder' = [holder EXCEPT ![w] = NoItem]
    /\ lastOp' = Op("AdvanceItem", holder[w], FALSE)
    /\ UNCHANGED <<queue, items, nextID, fs, now, cache, tasks, excluded, life,
                   exported, store, profiles, title, services>>

\* the tick released an item from the Import hold
ReleasedFromHold ==
    \E id \in ItemIDs : items'[id].path # 0 /\ items'[id].stage = Title /\ items[id].stage # Title

\* synchroniseQueue with the workers asleep: the hold's AdvanceItem has
\* advanced the stage and is about to wake the workers up
WakeSync ==
    /\ wake.pc = "on"
    /\ wake.tick = "idle"
    /\ SynchroniseQueueStep
    /\ wake' = [wake EXCEPT !.tick = IF ReleasedFromHold THEN "advanced" ELSE "idle"]
    /\ UNCHANGED <<exported, store, profiles, title, services>>

\* AdvanceItem's second statement run by the tick
WakeByTick ==
    /\ wake.pc = "on"
    /\ wake.tick = "advanced"
    /\ wake' = [wake EXCEPT !.tick = "idle", !.sig = AdvanceItemWakes(@)]
    /\ lastOp' = Op("AdvanceItem", NoItem, FALSE)
    /\ UNCHANGED <<pipeline, exported, store, profiles, title, services>>

\* ------------------------------------------------ ffmpeg commander (4.F)
LiveEncoders ==
    Cardinality({<<id, t>> \in ItemIDs \X Targets : tasks[id][t] \in TaskLive})

\* Submit: the commander takes the next item waiting at Transcode and queues
\* one task for each target the workflows matched
Submit(targetIDs) ==
    LET id == PickItem(Transcode) IN
    /\ id # NoItem
    /\ targetIDs # {}
    /\ items' = [items EXCEPT ![id] = SetStatus(@, "Processing")]
    /\ tasks' = [tasks EXCEPT ![id] =
                    [t \in Targets |-> IF t \in targetIDs THEN "Queued" ELSE "None"]]
    /\ lastOp' = Op("Submit", id, FALSE)
    /\ UNCHANGED <<queue, nextID, fs, now, cache, holder, excluded, life, others>>

\* a queued task is given a slot
TaskStart(id, t) ==
    /\ tasks[id][t] = "Queued"
    /\ LiveEncoders < MaxConcurrentEncoders
    /\ tasks' = [tasks EXCEPT ![id][t] = "Running"]
    /\ lastOp' = Op("TaskStart", id, FALSE)
    /\ UNCHANGED <<queue, items, nextID, fs, now, cache, holder, excluded, life, others>>

\* the runner of a task exits
TaskExit(id, t, ok) ==
    /\ tasks[id][t] = "Running"
    /\ tasks' = [tasks EXCEPT ![id][t] = IF ok THEN "Complete" ELSE "Failed"]
    /\ lastOp' = Op("TaskExit", id, ~ok)
    /\ UNCHANGED <<queue, items, nextID, fs, now, cache, holder, excluded, life, others>>

\* item completion: every task of the item is terminal
Settled(it, tk) ==
    LET live == {t \in Targets : tk[t] # "None"}
        kept == {t \in live : tk[t] # "Cancelled"}
    IN  IF kept # {} /\ \E t \in kept : tk[t] = "Complete"
        THEN Release(AdvanceStage(it))
        ELSE IF kept # {}
        THEN Release(SetStatus(it, "NeedsAttention"))
        ELSE Release(it)

Settle(id) ==
    /\ GetInstancesForItem(id) # {}
    /\ \A t \in GetInstancesForItem(id) : tasks[id][t] \in TaskTerminal
    /\ items' = [items EXCEPT ![id] = IF InQueue(id) THEN Settled(@, tasks[id]) ELSE @]
    /\ cache' = IF InQueue(id) /\ Settled(items[id], tasks[id]).status = "Completed"
                THEN cache \cup {items[id].path} ELSE cache
    /\ tasks' = [tasks EXCEPT ![id] = NoTasks]
    /\ lastOp' = Op("Settle", id, FALSE)
    /\ UNCHANGED <<queue, nextID, fs, now, holder, excluded, life, others>>

\* ------------------------------------------- orchestrator (Start and Stop)
Rest == <<queue, items, nextID, fs, now, cache, holder, excluded>>

\* the operating system delivers SIGINT or SIGTERM to the exit channels
Signal ==
    /\ ~life.signal
    /\ life.main # "exited"
    /\ life' = [life EXCEPT !.signal = TRUE]
    /\ lastOp' = Op("Signal", NoItem, FALSE)
    /\ UNCHANGED <<Rest, tasks, others>>

\* Start returning on an initialise error with Stop deferred only after
\* initialise: nothing of Stop runs
StartFails_StopNotDeferred ==
    /\ life.pc = "new"
    /\ life' = [life EXCEPT !.pc = "stopped"]
    /\ lastOp' = Op("Start", NoItem, TRUE)
    /\ UNCHANGED <<Rest, tasks, others>>

\* Start: initialise fails, Start returns and the deferred Stop runs
StartFails ==
    /\ life.pc = "new"
    /\ life' = [life EXCEPT !.pc = "stop_cancel"]
    /\ lastOp' = Op("Start", NoItem, TRUE)
    /\ UNCHANGED <<Rest, tasks, others>>

\* Start adding one to the wait-group for the two services it starts
StartServices_CountsPoolOnly ==
    /\ life.pc = "new"
    /\ life' = [life EXCEPT !.pc = "loop", !.wg = 1,
                            !.pool = "running", !.commander = "running"]
    /\ lastOp' = Op("Start", NoItem, FALSE)
    /\ UNCHANGED <<Rest, tasks, others>>

\* Start: shutdownWaitGroup.Add(2), the worker pool and the commander are
\* started, the event loop begins
StartServices ==
    /\ life.pc = "new"
    /\ life' = [life EXCEPT !.pc = "loop", !.wg = 2,
                            !.pool = "running", !.commander = "running"]
    /\ lastOp' = Op("Start", NoItem, FALSE)
    /\ UNCHANGED <<Rest, tasks, others>>

\* a support service crashes and its watcher does no more than log it
ServiceCrash_LogsOnly ==
    /\ life.pc = "loop"
    /\ life.ctx = "live"
    /\ lastOp' = Op("ServiceCrash", NoItem, TRUE)
    /\ UNCHANGED <<Rest, tasks, life, others>>

\* a support service crashes: its watcher cancels the context
ServiceCrash ==
    /\ life.pc = "loop"
    /\ life.ctx = "live"
    /\ life' = [life EXCEPT !.ctx = "cancelled"]
    /\ lastOp' = Op("ServiceCrash", NoItem, TRUE)
    /\ UNCHANGED <<Rest, tasks, others>>

\* the event loop takes a tick of the update ticker: SubmitUpdates
UpdateTick ==
    /\ life.pc = "loop"
    /\ lastOp' = Op("SubmitUpdates", NoItem, FALSE)
    /\ UNCHANGED <<Rest, tasks, life, others>>

\* the event loop returns on an interrupt or on the cancelled context; the
\* deferred Stop runs
LoopExit ==
    /\ life.pc = "loop"
    /\ life.signal \/ life.ctx = "cancelled"
    /\ life' = [life EXCEPT !.pc = "stop_cancel"]
    /\ lastOp' = Op("LoopExit", NoItem, FALSE)
    /\ UNCHANGED <<Rest, tasks, others>>

\* Stop: thea.theaCtxCancel()
StopCancelContext ==
    /\ life.pc = "stop_cancel"
    /\ life' = [life EXCEPT !.pc = "stop_close", !.ctx = "cancelled"]
    /\ lastOp' = Op("StopCancelContext", NoItem, FALSE)
    /\ UNCHANGED <<Rest, tasks, others>>

\* Stop: thea.workers.CloseWorkers()
StopCloseWorkers ==
    /\ life.pc = "stop_close"
    /\ life' = [life EXCEPT !.pc = "stop_wait",
                            !.pool = IF @ = "running" THEN "closed" ELSE @]
    /\ lastOp' = Op("StopCloseWorkers", NoItem, FALSE)
    /\ UNCHANGED <<Rest, tasks, others>>

\* Stop going on to the containers without joining the wait-group
StopWait_NoJoin ==
    /\ life.pc = "stop_wait"
    /\ life' = [life EXCEPT !.pc = "stop_docker"]
    /\ lastOp' = Op("StopWait", NoItem, FALSE)
    /\ UNCHANGED <<Rest, tasks, others>>

\* Stop: thea.shutdownWaitGroup.Wait()
StopWait ==
    /\ life.pc = "stop_wait"
    /\ life.wg = 0
    /\ life' = [life EXCEPT !.pc = "stop_docker"]
    /\ lastOp' = Op("StopWait", NoItem, FALSE)
    /\ UNCHANGED <<Rest, tasks, others>>

\* Stop: docker.DockerMgr.Shutdown
StopShutdownContainers ==
    /\ life.pc = "stop_docker"
    /\ life' = [life EXCEPT !.pc = "stopped", !.adapters = "closed"]
    /\ lastOp' = Op("StopShutdownContainers", NoItem, FALSE)
    /\ UNCHANGED <<Rest, tasks, others>>

\* services.Start, Thea's goroutine: Start has returned, with or without an
\* error; the socket hub is closed and the router is stopped
GatewaysClose ==
    /\ life.pc = "stopped"
    /\ life.gateways = "open"
    /\ life' = [life EXCEPT !.gateways = "closed"]
    /\ lastOp' = Op("GatewaysClose", NoItem, life.pool = "idle")
    /\ UNCHANGED <<Rest, tasks, others>>

\* services.Start, main goroutine: the exit channel delivers, ctxCancel()
MainCancel ==
    /\ life.main = "wait_signal"
    /\ life.signal
    /\ life' = [life EXCEPT !.main = "wait_group", !.ctx = "cancelled"]
    /\ lastOp' = Op("MainCancel", NoItem, FALSE)
    /\ UNCHANGED <<Rest, tasks, others>>

\* services.Start, main goroutine: wg.Wait() is passed once the three
\* goroutines are done, Start returns and main returns: exit status 0
MainExit ==
    /\ life.main = "wait_group"
    /\ life.gateways = "closed"
    /\ life' = [life EXCEPT !.main = "exited", !.exit = 0]
    /\ lastOp' = Op("MainExit", NoItem, FALSE)
    /\ UNCHANGED <<Rest, tasks, others>>

\* StartWorkers returns once the pool is closed and every worker is done
WorkersReturn ==
    /\ life.pool = "closed"
    /\ \A w \in Workers : holder[w] = NoItem
    /\ life' = [life EXCEPT !.pool = "returned", !.wg = @ - 1]
    /\ lastOp' = Op("WorkersReturn", NoItem, FALSE)
    /\ UNCHANGED <<Rest, tasks, others>>

Unfinished(id) == {t \in Targets : tasks[id][t] \in {"Queued", "Running", "Suspended"}}

\* the commander sees the cancelled context and cancels its encoders
CommanderCancelAll ==
    /\ life.commander = "running"
    /\ life.ctx = "cancelled"
    /\ \E id \in ItemIDs : Unfinished(id) # {}
    /\ tasks' = [id \in ItemIDs |-> [t \in Targets |-> InstanceCancel(tasks[id][t])]]
    /\ lastOp' = Op("CommanderCancelAll", NoItem, FALSE)
    /\ UNCHANGED <<Rest, life, others>>

\* the commander's Start returns once the context is cancelled and no
\* encoder is left
CommanderReturn ==
    /\ life.commander = "running"
    /\ life.ctx = "cancelled"
    /\ \A id \in ItemIDs : Unfinished(id) = {}
    /\ life' = [life EXCEPT !.commander = "returned", !.wg = @ - 1]
    /\ lastOp' = Op("CommanderReturn", NoItem, FALSE)
    /\ UNCHANGED <<Rest, tasks, others>>

\* ------------------------------------ store orchestrator (SaveEpisode)
\* a key of a model: NoKey before its first save
NoKey == 0
Keys  == 1..MaxKey

\* the statement of SaveEpisode that fails: none, SaveSeries, SaveSeason,
\* SaveEpisode of the media store, or the commit of the transaction
NoFailure    == 0
FailsSeries  == 1
FailsSeason  == 2
FailsEpisode == 3
FailsCommit  == 4

\* the in-memory keys of the three models
ModelKeys ==
    [episodeID : Keys \cup {NoKey}, seasonID : Keys \cup {NoKey},
     seriesID : Keys \cup {NoKey}, episodeFK : Keys \cup {NoKey},
     seasonFK : Keys \cup {NoKey}]

\* a call of SaveEpisode: the keys the models come with, the keys the
\* database will give them, and the statement that fails
StoreCalls ==
    [pc : {"called"}, old : ModelKeys, keys : ModelKeys,
     given : [series : Keys, season : Keys, episode : Keys],
     failAt : NoFailure..FailsCommit, rows : {<<>>}, err : {FALSE}]

\* the body of the transaction linking the season to the key the series
\* had before it was saved
SavedKeys_LinksOldSeries(k, given) ==
    LET k1 == [k  EXCEPT !.seriesID = given.series]
        k2 == [k1 EXCEPT !.seasonFK = k.seriesID]
        k3 == [k2 EXCEPT !.seasonID = given.season]
        k4 == [k3 EXCEPT !.episodeFK = k3.seasonID]
    IN  [k4 EXCEPT !.episodeID = given.episode]

\* the keys after the body of the transaction: each save sets the model's
\* primary key, and the foreign keys are copied in between
SavedKeys(k, given) ==
    LET k1 == [k  EXCEPT !.seriesID = given.series]
        k2 == [k1 EXCEPT !.seasonFK = k1.seriesID]
        k3 == [k2 EXCEPT !.seasonID = given.season]
        k4 == [k3 EXCEPT !.episodeFK = k3.seasonID]
    IN  [k4 EXCEPT !.episodeID = given.episode]

\* the rows the body of the transaction writes before it fails, in order
TxWrites(failAt) ==
    CASE failAt = FailsSeries  -> <<>>
      [] failAt = FailsSeason  -> <<"series">>
      [] failAt = FailsEpisode -> <<"series", "season">>
      [] OTHER                 -> <<"series", "season", "episode">>

\* WrapTx: the writes are committed when the body returns no error and the
\* commit succeeds, and rolled back otherwise
WrapTx(rows, failAt) == IF failAt = NoFailure THEN rows \o TxWrites(failAt) ELSE rows

\* the keys when the transaction has failed at failAt: the saves before the
\* failing one have set their model's primary key, and the foreign keys
\* assigned on the way are set
KeysAtFailure(k, given, failAt) ==
    LET k1 == [k  EXCEPT !.seriesID = given.series]
        k2 == [k1 EXCEPT !.seasonFK = k1.seriesID]
        k3 == [k2 EXCEPT !.seasonID = given.season]
        k4 == [k3 EXCEPT !.episodeFK = k3.seasonID]
    IN  CASE failAt = FailsSeries  -> k
          [] failAt = FailsSeason  -> k2
          [] failAt = FailsEpisode -> k4
          [] OTHER                 -> SavedKeys(k, given)

\* the rollback putting back the three primary keys only
RollbackKeys_PrimaryKeysOnly(k, snapshot) ==
    [k EXCEPT !.episodeID = snapshot.episodeID,
              !.seasonID  = snapshot.seasonID,
              !.seriesID  = snapshot.seriesID]

\* the rollback of the model keys: the five values read at entry are
\* assigned back
RollbackKeys(k, snapshot) ==
    [k EXCEPT !.episodeID = snapshot.episodeID,
              !.seasonID  = snapshot.seasonID,
              !.seriesID  = snapshot.seriesID,
              !.episodeFK = snapshot.episodeFK,
              !.seasonFK  = snapshot.seasonFK]

\* SaveEpisode: on an error the keys are set back to what they were
SaveEpisode ==
    /\ store.pc = "called"
    /\ store' = [store EXCEPT
                    !.pc   = "returned",
                    !.rows = WrapTx(store.rows, store.failAt),
                    !.keys = IF store.failAt = NoFailure
                             THEN SavedKeys(store.keys, store.given)
                             ELSE RollbackKeys(
                                      KeysAtFailure(store.keys, store.given, store.failAt),
                                      store.old),
                    !.err  = store.failAt # NoFailure]
    /\ lastOp' = Op("SaveEpisode", NoItem, store.failAt # NoFailure)
    /\ UNCHANGED <<pipeline, exported, wake, profiles, title, services>>

\* --------------------------------- store orchestrator (UpdateWorkflow)
PgFkConstraintViolationCode == "23503"
PgUniqueViolationCode       == "23505"

ErrWorkflowTargetIDMissing == "ErrWorkflowTargetIDMissing"
UnexpectedQueryError       == "unexpected query error"
NoError                    == "nil"

\* a pointer parameter: <<>> is nil, <<v>> points to v
Ptr(S) == {<<>>} \cup {<<v>> : v \in S}

\* the sub-update of UpdateWorkflow that fails when it runs
FailsRowUpdate      == 1
FailsCriteriaUpdate == 2
FailsTargetsUpdate  == 3

WorkflowValues == 1..MaxWorkflowValue

\* the workflow as the database holds it
WorkflowRows ==
    [label : WorkflowValues, enabled : BOOLEAN,
     criteria : WorkflowValues, targets : WorkflowValues]

WorkflowArgs ==
    [newLabel : Ptr(WorkflowValues), newCriteria : Ptr(WorkflowValues),
     newTargetIDs : Ptr(WorkflowValues), newEnabled : Ptr(BOOLEAN)]

\* the errors a sub-update may return: a *pq.Error with its code and table,
\* or an error of another type
QueryErrors ==
    [pq : {TRUE},
     code : {PgFkConstraintViolationCode, PgUniqueViolationCode},
     table : {"workflow_transcode_targets", "workflow_criteria"}]
    \cup {[pq |-> FALSE, code |-> "", table |-> ""]}

\* a call of UpdateWorkflow: the row before it, the parameters, the
\* sub-update that fails when it runs and the error it fails with
WorkflowCalls ==
    {c \in [pc : {"called"}, before : WorkflowRows, row : WorkflowRows,
            args : WorkflowArgs, failAt : NoFailure..FailsCommit,
            error : QueryErrors, out : {<<>>}, err : {NoError}] :
        /\ c.row = c.before
        /\ c.failAt \in {NoFailure, FailsCommit} => ~c.error.pq}

\* fail: a foreign-key violation on the workflow-target association
\* becomes ErrWorkflowTargetIDMissing, every other error is wrapped
fail(err) ==
    IF /\ err.pq
       /\ err.code = PgFkConstraintViolationCode
       /\ err.table = "workflow_transcode_targets"
    THEN ErrWorkflowTargetIDMissing
    ELSE UnexpectedQueryError

\* whether the body of the transaction runs the sub-update
RunsUpdate(args, step) ==
    CASE step = FailsRowUpdate      -> args.newLabel # <<>> \/ args.newEnabled # <<>>
      [] step = FailsCriteriaUpdate -> args.newCriteria # <<>>
      [] step = FailsTargetsUpdate  -> args.newTargetIDs # <<>>
      [] OTHER                      -> TRUE

\* the statement the call fails at: a sub-update that is skipped cannot fail
FailedUpdate(args, failAt) ==
    IF RunsUpdate(args, failAt) THEN failAt ELSE NoFailure

\* UpdateWorkflowTx, UpdateWorkflowCriteriaTx and UpdateWorkflowTargetsTx
UpdateWorkflowTx(row, newLabel, newEnabled) ==
    [row EXCEPT !.label   = IF newLabel = <<>> THEN @ ELSE newLabel[1],
                !.enabled = IF newEnabled = <<>> THEN @ ELSE newEnabled[1]]
UpdateWorkflowCriteriaTx(row, newCriteria) == [row EXCEPT !.criteria = newCriteria]
UpdateWorkflowTargetsTx(row, newTargetIDs) == [row EXCEPT !.targets = newTargetIDs]

\* the body of the transaction replacing the criteria whether or not the
\* parameter was given
WorkflowTxBody_AlwaysCriteria(row, args, failed) ==
    LET r1 == IF args.newLabel # <<>> \/ args.newEnabled # <<>>
              THEN UpdateWorkflowTx(row, args.newLabel, args.newEnabled) ELSE row
        r2 == UpdateWorkflowCriteriaTx(r1,
                  IF args.newCriteria # <<>> THEN args.newCriteria[1] ELSE 1)
        r3 == IF args.newTargetIDs # <<>>
              THEN UpdateWorkflowTargetsTx(r2, args.newTargetIDs[1]) ELSE r2
    IN  CASE failed = FailsRowUpdate      -> row
          [] failed = FailsCriteriaUpdate -> r1
          [] failed = FailsTargetsUpdate  -> r2
          [] OTHER                        -> r3

\* the body of the transaction: the row as the transaction sees it when the
\* body returns, after the sub-updates that ran before the failing one
WorkflowTxBody(row, args, failed) ==
    LET r1 == IF args.newLabel # <<>> \/ args.newEnabled # <<>>
              THEN UpdateWorkflowTx(row, args.newLabel, args.newEnabled) ELSE row
        r2 == IF args.newCriteria # <<>>
              THEN UpdateWorkflowCriteriaTx(r1, args.newCriteria[1]) ELSE r1
        r3 == IF args.newTargetIDs # <<>>
              THEN UpdateWorkflowTargetsTx(r2, args.newTargetIDs[1]) ELSE r2
    IN  CASE failed = FailsRowUpdate      -> row
          [] failed = FailsCriteriaUpdate -> r1
          [] failed = FailsTargetsUpdate  -> r2
          [] OTHER                        -> r3

\* WrapTx on the workflow: what the body wrote is committed when nothing
\* failed, and rolled back otherwise
WrapTxWorkflow(row, written, failed) == IF failed = NoFailure THEN written ELSE row

\* UpdateWorkflow: the error of the transaction is returned without a
\* workflow, otherwise the workflow is read back
UpdateWorkflow ==
    LET failed == FailedUpdate(workflow.args, workflow.failAt)
        row    == WrapTxWorkflow(workflow.row,
                      WorkflowTxBody(workflow.row, workflow.args, failed), failed)
    IN
    /\ workflow.pc = "called"
    /\ workflow' = [workflow EXCEPT
                       !.pc  = "returned",
                       !.row = row,
                       !.err = CASE failed = NoFailure  -> NoError
                                 [] failed = FailsCommit -> UnexpectedQueryError
                                 [] OTHER -> fail(workflow.error),
                       !.out = IF failed = NoFailure THEN <<row>> ELSE <<>>]
    /\ lastOp' = Op("UpdateWorkflow", NoItem, failed # NoFailure)
    /\ UNCHANGED <<pipeline, exported, wake, store, profiles, title,
                   docker, updates, promote>>

\* ------------------------------------------------ docker manager (pkg)
Labels == 1..NumLabels

\* newDockerManager: no container registered, the wait-group empty;
\* started and closed are the containers whose Start and Close were called,
\* monitors the containers with a monitorContainer goroutine running
newDockerManager ==
    [pc |-> "ready", containers |-> {}, started |-> {}, closed |-> {},
     monitors |-> {}, wg |-> 0]

\* the branch of SpawnContainer for a failed container.Start, without the
\* Done that pairs with the Add
StartErrorBranch_NoDone(d, label) ==
    [d EXCEPT !.closed = @ \cup {label}]

\* the branch of SpawnContainer for a failed container.Start: the container
\* is closed and the wait-group is released
StartErrorBranch(d, label) ==
    [d EXCEPT !.closed = @ \cup {label}, !.wg = @ - 1]

\* SpawnContainer: a label in use is refused; otherwise the container is
\* registered, the wait-group counts it, and it is started; when it started
\* its monitor is launched and the call waits for it to come UP (up)
SpawnContainer(label, startOk, up) ==
    LET added == [docker EXCEPT !.containers = @ \cup {label},
                                !.wg = @ + 1,
                                !.started = @ \cup {label}]
    IN
    /\ docker.pc = "ready"
    /\ IF label \in docker.containers
       THEN /\ docker' = docker
            /\ lastOp' = Op("SpawnContainer", label, TRUE)
       ELSE IF ~startOk
       THEN /\ docker' = StartErrorBranch(added, label)
            /\ lastOp' = Op("SpawnContainer", label, TRUE)
       ELSE /\ docker' = [added EXCEPT !.monitors = @ \cup {label}]
            /\ lastOp' = Op("SpawnContainer", label, ~up)
    /\ UNCHANGED <<pipeline, exported, wake, store, profiles, title,
                   workflow, updates, promote>>

\* monitorContainer returns when a channel of its container is closed; the
\* deferred Done releases the wait-group
MonitorDetach(label) ==
    /\ docker.pc = "ready"
    /\ label \in docker.monitors
    /\ docker' = [docker EXCEPT !.monitors = @ \ {label}, !.wg = @ - 1]
    /\ lastOp' = Op("monitorContainer", label, FALSE)
    /\ UNCHANGED <<pipeline, exported, wake, store, profiles, title,
                   workflow, updates, promote>>

\* ------------------------------------- processor update stream (part_003)
\* processorUpdateType
ITEM  == 0
QUEUE == 1

\* the ID on UpdateChan that stands for a change of the queue itself
QueueChanged == -1

\* the stream as NewProcessor leaves it: nothing pending; sent is what the
\* last step handed to the Negotiator, received the item IDs taken from
\* UpdateChan since the last flush
NewProcessor == [pc |-> "listening", pending |-> {}, sent |-> <<>>, received |-> <<>>]

ProcessorUpdate(type, item, position, id) ==
    [UpdateType |-> type, QueueItem |-> item, ItemPosition |-> position, ItemId |-> id]

\* the update of submitUpdates reporting a missing item at position 0
ItemUpdate_MissingAtFront(k) ==
    IF FindById(k) < 0
    THEN ProcessorUpdate(ITEM, NoItem, 0, k)
    ELSE ProcessorUpdate(ITEM, queue[FindById(k) + 1], FindById(k), k)

\* the update submitUpdates builds for the pending ID k: the item and its
\* position, or no item and -1 when the queue has no item with this ID
ItemUpdate(k) ==
    IF FindById(k) < 0
    THEN ProcessorUpdate(ITEM, NoItem, -1, k)
    ELSE ProcessorUpdate(ITEM, queue[FindById(k) + 1], FindById(k), k)

\* handleUpdateStream, case UpdateChan: -1 is passed on at once as a QUEUE
\* update, any other ID is added to the pending set
HandleUpdate(update) ==
    /\ updates.pc = "listening"
    /\ Len(updates.received) < MaxUpdates
    /\ IF update = QueueChanged
       THEN updates' = [updates EXCEPT !.sent = <<ProcessorUpdate(QUEUE, NoItem, 0, 0)>>]
       ELSE updates' = [updates EXCEPT !.pending = @ \cup {update},
                                       !.sent = <<>>,
                                       !.received = Append(@, update)]
    /\ lastOp' = Op("handleUpdateStream", update, FALSE)
    /\ UNCHANGED <<pipeline, exported, wake, store, profiles, title,
                   workflow, docker, promote>>

\* handleUpdateStream, case ticker: submitUpdates ranges over the pending
\* set in an order of Go's choosing, delivers one update for each ID and
\* deletes it
SubmitUpdates ==
    /\ updates.pc = "listening"
    /\ \E order \in Orderings(updates.pending) :
          updates' = [updates EXCEPT
                         !.pending = {},
                         !.sent = [i \in DOMAIN order |-> ItemUpdate(order[i])],
                         !.received = <<>>]
    /\ lastOp' = Op("submitUpdates", NoItem, FALSE)
    /\ UNCHANGED <<pipeline, exported, wake, store, profiles, title,
                   workflow, docker, promote>>

\* ------------------------------------------------ profile list (safeList)
Tags    == 1..NumTags
Clients == 1..NumClients

\* a goroutine outside InsertProfile and RemoveProfile
NoCall == [op |-> "none", tag |-> 0, idx |-> -1]

\* the list as NewList leaves it, nobody calling
NewList ==
    [pc |-> "ready", list |-> <<>>, calls |-> [c \in Clients |-> NoCall],
     panicked |-> FALSE]

\* FindProfileByTag: the 0-based index of the first profile with the tag,
\* -1 when there is none; the search holds the lock
FindProfileByTag(list, tag) ==
    IF \E i \in DOMAIN list : list[i] = tag
    THEN (CHOOSE i \in DOMAIN list :
             list[i] = tag /\ \A j \in DOMAIN list : list[j] = tag => i <= j) - 1
    ELSE -1

\* inserts that have passed their search and not appended yet
Inserting == {c \in Clients : profiles.calls[c].op = "insert"}

\* InsertProfile up to the lock: the search; a hit returns the error
InsertProfileFind(c, tag) ==
    /\ profiles.pc = "ready"
    /\ ~profiles.panicked
    /\ profiles.calls[c] = NoCall
    /\ Len(profiles.list) + Cardinality(Inserting) < MaxProfiles
    /\ IF FindProfileByTag(profiles.list, tag) # -1
       THEN /\ lastOp' = Op("InsertProfile", tag, TRUE)
            /\ UNCHANGED profiles
       ELSE /\ lastOp' = Op("InsertProfileFind", tag, FALSE)
            /\ profiles' = [profiles EXCEPT
                              !.calls[c] = [op |-> "insert", tag |-> tag, idx |-> -1]]
    /\ UNCHANGED <<pipeline, exported, wake, store, title, services>>

\* InsertProfile under the lock: the append
InsertProfileAppend(c) ==
    /\ profiles.pc = "ready"
    /\ ~profiles.panicked
    /\ profiles.calls[c].op = "insert"
    /\ profiles' = [profiles EXCEPT
                      !.list = Append(@, profiles.calls[c].tag),
                      !.calls[c] = NoCall]
    /\ lastOp' = Op("InsertProfile", profiles.calls[c].tag, FALSE)
    /\ UNCHANGED <<pipeline, exported, wake, store, title, services>>

\* RemoveProfile up to the lock: the search; a miss returns the error
RemoveProfileFind(c, tag) ==
    /\ profiles.pc = "ready"
    /\ ~profiles.panicked
    /\ profiles.calls[c] = NoCall
    /\ IF FindProfileByTag(profiles.list, tag) = -1
       THEN /\ lastOp' = Op("RemoveProfile", tag, TRUE)
            /\ UNCHANGED profiles
       ELSE /\ lastOp' = Op("RemoveProfileFind", tag, FALSE)
            /\ profiles' = [profiles EXCEPT
                              !.calls[c] = [op  |-> "remove", tag |-> tag,
                                            idx |-> FindProfileByTag(profiles.list, tag)]]
    /\ UNCHANGED <<pipeline, exported, wake, store, title, services>>

\* RemoveProfile under the lock: the profile at the index found earlier is
\* cut out; an index past the end of the list is a slice-bounds panic
RemoveProfileCut(c) ==
    LET idx == profiles.calls[c].idx IN
    /\ profiles.pc = "ready"
    /\ ~profiles.panicked
    /\ profiles.calls[c].op = "remove"
    /\ IF idx + 1 > Len(profiles.list)
       THEN profiles' = [profiles EXCEPT !.panicked = TRUE, !.calls[c] = NoCall]
       ELSE profiles' = [profiles EXCEPT
                           !.list = SubSeq(@, 1, idx) \o SubSeq(@, idx + 2, Len(@)),
                           !.calls[c] = NoCall]
    /\ lastOp' = Op("RemoveProfile", profiles.calls[c].tag, idx + 1 > Len(profiles.list))
    /\ UNCHANGED <<pipeline, exported, wake, store, title, services>>

\* ------------------------------------------------ title task (FormatTitle)
\* the characters of a name, one for each class the pattern tells apart:
\* "S" for S, s, E and e; the digits the pattern names and one more; "x"
\* for every other letter, the underscore and the dot; "-" for the rest
Digits    == {"0", "1", "2", "9"}
SeasonTag == {"S"}
WordOrDot == {"x"} \cup SeasonTag \cup Digits
Chars     == WordOrDot \cup {"-"}

Names == UNION {[1..n -> Chars] : n \in 0..MaxNameLen}

\* regular expressions: a character class, a sequence, an alternative, one
\* or more repetitions
Class(of)  == [k |-> "class", of |-> of]
Then(a, b) == [k |-> "then", a |-> a, b |-> b]
Or(a, b)   == [k |-> "or", a |-> a, b |-> b]
Plus(a)    == [k |-> "plus", a |-> a]
Twice(a)   == Then(a, a)

\* the pattern without its second alternative
TitlePattern_NoYear ==
    Then(Plus(Class(WordOrDot)), Twice(Then(Class(SeasonTag), Plus(Class(Digits)))))

\* ([\w.]+)(([SsEe]\d+){2})|(20|19)\d{2}
TitlePattern ==
    Or(Then(Plus(Class(WordOrDot)), Twice(Then(Class(SeasonTag), Plus(Class(Digits))))),
       Then(Or(Then(Class({"2"}), Class({"0"})), Then(Class({"1"}), Class({"9"}))),
            Twice(Class(Digits))))

\* the positions a match of re that starts at position i of s can end before
RECURSIVE Ends(_, _, _)
Ends(re, s, i) ==
    CASE re.k = "class" -> IF i <= Len(s) /\ s[i] \in re.of THEN {i + 1} ELSE {}
      [] re.k = "then"  -> UNION {Ends(re.b, s, j) : j \in Ends(re.a, s, i)}
      [] re.k = "or"    -> Ends(re.a, s, i) \cup Ends(re.b, s, i)
      [] re.k = "plus"  -> LET once == Ends(re.a, s, i)
                           IN  once \cup UNION {Ends(re, s, j) : j \in once}

\* FindStringSubmatch finds a match that starts anywhere in s
Found(re, s) == \E i \in 1..(Len(s) + 1) : Ends(re, s, i) # {}

\* FormatTitle: the name itself, or the error when the pattern finds nothing
FormatTitleResult(name) ==
    IF Found(TitlePattern, name)
    THEN [out |-> name, err |-> FALSE]
    ELSE [out |-> <<>>, err |-> TRUE]

FormatTitle ==
    /\ title.pc = "called"
    /\ title' = [title EXCEPT !.pc  = "returned",
                              !.out = FormatTitleResult(title.name).out,
                              !.err = FormatTitleResult(title.name).err]
    /\ lastOp' = Op("FormatTitle", NoItem, FormatTitleResult(title.name).err)
    /\ UNCHANGED <<pipeline, exported, wake, store, profiles, services>>

\* ------------------------------------------------------------------- next
\* the orders a caller may pass to ReorderQueue
OrderInputs == UNION {[1..n -> ItemIDs] : n \in 0..MaxItems}

Next ==
    \/ ClockAdvance
    \/ \E p \in 1..MaxFiles : FileWrite(p)
    \/ \E p \in Paths : FileDelete(p)
    \/ SynchroniseQueue
    \/ \E id \in ItemIDs : GetItem(id)
    \/ \E newOrder \in OrderInputs : ReorderQueue(newOrder)
    \/ \E id \in ItemIDs : PromoteItem(id)
    \/ \E id \in ItemIDs : CancelItem(id)
    \/ \E id \in ItemIDs : PauseItem(id)
    \/ \E id \in ItemIDs : ResumeItem(id)
    \/ \E id \in ItemIDs, numbered, saved \in BOOLEAN : ExportItem(id, numbered, saved)
    \/ \E w \in Workers : WorkerPick(w)
    \/ \E w \in Workers : WorkerComplete(w)
    \/ \E w \in Workers, fatal \in BOOLEAN : WorkerFail(w, fatal)
    \/ \E targetIDs \in SUBSET Targets : Submit(targetIDs)
    \/ \E id \in ItemIDs, t \in Targets : TaskStart(id, t)
    \/ \E id \in ItemIDs, t \in Targets, ok \in BOOLEAN : TaskExit(id, t, ok)
    \/ \E id \in ItemIDs : Settle(id)

Spec == Init /\ [][Next]_vars

\* ingest and the worker pool alone, on a queue reordered at will
NextPool ==
    \/ ClockAdvance
    \/ \E p \in 1..MaxPoolFiles : FileWrite(p)
    \/ SynchroniseQueue
    \/ \E id \in ItemIDs : PromoteItem(id)
    \/ \E w \in Workers : WorkerPick(w)
    \/ \E w \in Workers : WorkerComplete(w)
    \/ \E w \in Workers, fatal \in BOOLEAN : WorkerFail(w, fatal)

SpecPool == Init /\ [][NextPool]_vars

\* the queue under ingest, reordering and promotion alone, with every path
\* of the import directory in use
NextQueue ==
    \/ \E p \in Paths : FileWrite(p)
    \/ \E p \in Paths : FileDelete(p)
    \/ SynchroniseQueue
    \/ \E newOrder \in OrderInputs : ReorderQueue(newOrder)
    \/ \E id \in ItemIDs : PromoteItem(id)

SpecQueue == Init /\ [][NextQueue]_vars

\* the life of the process from Start to the end of Stop, with the pipeline
\* at work in between
NextStop ==
    \/ Signal
    \/ GatewaysClose
    \/ MainCancel
    \/ MainExit
    \/ StartFails
    \/ StartServices
    \/ ServiceCrash
    \/ LoopExit
    \/ StopCancelContext
    \/ StopCloseWorkers
    \/ StopWait
    \/ StopShutdownContainers
    \/ WorkersReturn
    \/ CommanderCancelAll
    \/ CommanderReturn
    \/ ClockAdvance
    \/ \E p \in 1..MaxFiles : FileWrite(p)
    \/ life.pc = "loop" /\ SynchroniseQueue
    \/ UpdateTick
    \/ life.pool = "running" /\ \E w \in Workers : WorkerPick(w)
    \/ \E w \in Workers : WorkerComplete(w)
    \/ \E w \in Workers, fatal \in BOOLEAN : WorkerFail(w, fatal)
    \/ /\ life.commander = "running"
       /\ life.ctx = "live"
       /\ \E targetIDs \in SUBSET Targets : Submit(targetIDs)
    \/ /\ life.commander = "running"
       /\ life.ctx = "live"
       /\ \E id \in ItemIDs, t \in Targets : TaskStart(id, t)
    \/ \E id \in ItemIDs, t \in Targets, ok \in BOOLEAN : TaskExit(id, t, ok)
    \/ life.commander = "running" /\ \E id \in ItemIDs : Settle(id)

SpecStop == Init /\ [][NextStop]_vars

\* the same life with the event loop's select taking a case that stays
\* ready: a delivered signal or the cancelled context
SpecStopFair == SpecStop /\ WF_vars(LoopExit)

\* ExportItem alone, on one queued item in every stage and status and with
\* every combination of encoder instances the commander may hold for it
InitExport ==
    /\ \E stage \in Import..Finish, status \in ItemStatuses,
          tk \in [Targets -> TaskStatuses] :
          /\ items = [id \in ItemIDs |->
                        IF id = 1 THEN [path |-> 1, stage |-> stage, status |-> status]
                        ELSE NoRecord]
          /\ tasks = [id \in ItemIDs |-> IF id = 1 THEN tk ELSE NoTasks]
    /\ queue = <<1>>
    /\ nextID = 2
    /\ fs = [p \in Paths |-> IF p = 1 THEN 0 ELSE NoFile]
    /\ now = 0
    /\ cache = {}
    /\ holder = [w \in Workers |-> NoItem]
    /\ excluded = {}
    /\ life = NewLife
    /\ lastOp = Op("NewThea", NoItem, FALSE)
    /\ exported = {}
    /\ wake = Idle
    /\ store = Idle
    /\ profiles = Idle
    /\ title = Idle
    /\ ServicesIdle

NextExport ==
    \E id \in ItemIDs, numbered, saved \in BOOLEAN : ExportItem(id, numbered, saved)

SpecExport == InitExport /\ [][NextExport]_vars

\* a call of SaveEpisode on models with any keys, failing anywhere or nowhere
InitStore ==
    /\ InitPipeline
    /\ wake = Idle
    /\ store \in {c \in StoreCalls : c.old = c.keys}
    /\ profiles = Idle
    /\ title = Idle
    /\ ServicesIdle

NextStore == SaveEpisode

SpecStore == InitStore /\ [][NextStore]_vars

\* the queue with one PromoteItem call taken step by step while the tick
\* and other callers of the queue service run
NextPromote ==
    \/ NextQueue
    \/ \E id \in ItemIDs : PromoteItemFind(id)
    \/ PromoteItemList
    \/ PromoteItemReorder

SpecPromote == Init /\ [][NextPromote]_vars

\* the store orchestrator alone: UpdateWorkflow calls
InitWorkflow ==
    /\ InitPipeline
    /\ wake = Idle
    /\ store = Idle
    /\ profiles = Idle
    /\ title = Idle
    /\ workflow \in WorkflowCalls
    /\ docker = Idle
    /\ updates = Idle
    /\ promote = Idle

NextWorkflow == UpdateWorkflow

SpecWorkflow == InitWorkflow /\ [][NextWorkflow]_vars

\* the docker manager alone: containers spawned, monitors detaching
InitDocker ==
    /\ InitPipeline
    /\ wake = Idle
    /\ store = Idle
    /\ profiles = Idle
    /\ title = Idle
    /\ workflow = Idle
    /\ docker = newDockerManager
    /\ updates = Idle
    /\ promote = Idle

NextDocker ==
    \/ \E label \in Labels, startOk, up \in BOOLEAN : SpawnContainer(label, startOk, up)
    \/ \E label \in Labels : MonitorDetach(label)

SpecDocker == InitDocker /\ [][NextDocker]_vars

\* the update stream beside a queue whose items come and go
InitUpdates ==
    /\ InitPipeline
    /\ wake = Idle
    /\ store = Idle
    /\ profiles = Idle
    /\ title = Idle
    /\ workflow = Idle
    /\ docker = Idle
    /\ updates = NewProcessor
    /\ promote = Idle

NextUpdates ==
    \/ \E p \in 1..MaxPoolFiles : FileWrite(p)
    \/ \E p \in 1..MaxPoolFiles : FileDelete(p)
    \/ SynchroniseQueue
    \/ \E update \in ItemIDs \cup {QueueChanged} : HandleUpdate(update)
    \/ SubmitUpdates

SpecUpdates == InitUpdates /\ [][NextUpdates]_vars

\* the profile list under concurrent callers
InitProfiles ==
    /\ InitPipeline
    /\ wake = Idle
    /\ store = Idle
    /\ profiles = NewList
    /\ title = Idle
    /\ ServicesIdle

NextProfiles ==
    \/ \E c \in Clients, tag \in Tags : InsertProfileFind(c, tag)
    \/ \E c \in Clients : InsertProfileAppend(c)
    \/ \E c \in Clients, tag \in Tags : RemoveProfileFind(c, tag)
    \/ \E c \in Clients : RemoveProfileCut(c)

SpecProfiles == InitProfiles /\ [][NextProfiles]_vars

\* a call of FormatTitle on any name
InitTitle ==
    /\ InitPipeline
    /\ wake = Idle
    /\ store = Idle
    /\ profiles = Idle
    /\ title \in [pc : {"called"}, name : Names, out : {<<>>}, err : {FALSE}]
    /\ ServicesIdle

NextTitle == FormatTitle

SpecTitle == InitTitle /\ [][NextTitle]_vars

\* ingest and the workers, each worker sleeping when its stage is empty
InitWake ==
    /\ InitPipeline
    /\ wake = AllAwake
    /\ store = Idle
    /\ profiles = Idle
    /\ title = Idle
    /\ ServicesIdle

NextWake ==
    \/ ClockAdvance
    \/ \E p \in 1..MaxFiles : FileWrite(p)
    \/ WakeSync
    \/ WakeByTick
    \/ \E w \in Sleepers : WakePick(w)
    \/ \E w \in Sleepers : WakeSleep(w)
    \/ \E w \in Sleepers : WakeReceive(w)
    \/ \E w \in Sleepers : WakeAdvance(w)
    \/ \E w \in Sleepers : WakeByWorker(w)

\* every worker and the tick go on when they can: goroutines are scheduled
\* fairly
SpecWake ==
    /\ InitWake
    /\ [][NextWake]_vars
    /\ WF_vars(WakeByTick)
    /\ \A w \in Sleepers :
          /\ WF_vars(WakePick(w))
          /\ WF_vars(WakeSleep(w))
          /\ WF_vars(WakeReceive(w))
          /\ WF_vars(WakeAdvance(w))
          /\ WF_vars(WakeByWorker(w))

\* ================================================================ claims
\* the same item record: the ItemID still names the item it named
SameItem(id) == items[id].path # 0 /\ items'[id].path = items[id].path

Without(q, id) == SelectSeq(q, LAMBDA x : x # id)

\* C1: PromoteItem(id) for an id in the queue returns no error and leaves id
\* at index 0, every other item in its previous relative order, no item
\* added or lost and no item record touched, whatever the position of id.
C1_PromoteMovesToFront ==
    [][\A id \in ItemIDs :
         (lastOp'.op = "PromoteItem" /\ lastOp'.id = id /\ InQueue(id)) =>
            /\ ~lastOp'.err
            /\ Len(queue') = Len(queue)
            /\ queue'[1] = id
            /\ Without(queue', id) = Without(queue, id)
            /\ items' = items]_vars

\* a promotion has put the youngest of three items in front
C1_Witness ==
    /\ lastOp.op = "PromoteItem"
    /\ ~lastOp.err
    /\ Len(queue) >= 3
    /\ queue[1] = lastOp.id
    /\ \A i \in 2..Len(queue) : queue[i] < queue[1]

\* newOrder names each queued ItemID exactly once and nothing else
NamesEachOnce(newOrder, q) ==
    /\ Len(newOrder) = Len(q)
    /\ \A i \in DOMAIN q :
         Cardinality({j \in DOMAIN newOrder : newOrder[j] = q[i]}) = 1

\* C2: ReorderQueue(newOrder) succeeds exactly when newOrder is a
\* permutation of the queued ItemIDs, and then the queue order is newOrder
\* with no item created or destroyed; otherwise it fails and the order is
\* unchanged.
C2_ReorderPermutationOnly ==
    [][lastOp'.op = "ReorderQueue" =>
         \A newOrder \in OrderInputs :
            ReorderQueue(newOrder) =>
               /\ items' = items
               /\ IF NamesEachOnce(newOrder, queue)
                  THEN ~lastOp'.err /\ queue' = newOrder
                  ELSE lastOp'.err /\ queue' = queue]_vars

\* a reorder has put three items in an order of its own
C2_Witness ==
    /\ lastOp.op = "ReorderQueue"
    /\ ~lastOp.err
    /\ Len(queue) >= 3
    /\ queue[1] > queue[2]
    /\ queue[3] > queue[2]

\* no item is held by two workers, and a held item is not Pending
HeldOnce ==
    /\ \A w1, w2 \in Workers :
         (w1 # w2 /\ holder[w1] # NoItem) => holder[w1] # holder[w2]
    /\ \A w \in Workers :
         (holder[w] # NoItem /\ InQueue(holder[w])) =>
            items[holder[w]].status \in {"Processing", "Paused", "Cancelling"}

\* a pick hands out the first Pending item of the stage and makes it Processing
PickedInOrder ==
    \A w \in Workers :
       (holder[w] = NoItem /\ holder'[w] # NoItem) =>
          LET id == holder'[w] IN
          /\ InQueue(id)
          /\ items[id].stage = WorkerStage(w)
          /\ items[id].status = "Pending"
          /\ items'[id].status = "Processing"
          /\ \A i \in 1..FindById(id) :
                ~(items[queue[i]].stage = WorkerStage(w) /\ items[queue[i]].status = "Pending")

\* C3: under every interleaving of the workers' picks an item is handed to
\* at most one worker per time it is Pending at the stage: a pick returns
\* the first Pending item of the stage in queue order and flips it to
\* Processing, so no two workers hold one item.
C3_PickExclusive == []HeldOnce /\ [][PickedInOrder]_vars

\* the two Title workers each hold an item
C3_Witness ==
    \E w1, w2 \in Workers :
       /\ w1 # w2
       /\ WorkerStage(w1) = WorkerStage(w2)
       /\ holder[w1] # NoItem
       /\ holder[w2] # NoItem
       /\ items[holder[w1]].status = "Processing"
       /\ items[holder[w2]].status = "Processing"

\* C4: under every operation an item's Stage never decreases, and
\* CancelItem, PauseItem, ResumeItem, ReorderQueue and PromoteItem leave
\* every item's Stage unchanged.
C4_StageMonotonic ==
    [][/\ \A id \in ItemIDs : SameItem(id) => items'[id].stage >= items[id].stage
       /\ lastOp'.op \in {"CancelItem", "PauseItem", "ResumeItem", "ReorderQueue", "PromoteItem"} =>
             \A id \in ItemIDs : items'[id].stage = items[id].stage]_vars

\* an item beyond the Import stage has been cancelled while busy
C4_Witness ==
    /\ lastOp.op = "CancelItem"
    /\ ~lastOp.err
    /\ lastOp.id # NoItem
    /\ InQueue(lastOp.id)
    /\ items[lastOp.id].stage >= Omdb
    /\ items[lastOp.id].status = "Cancelling"

\* the age of the file at path p
Age(p) == now - fs[p]

\* the stage leaves Import only through the hold of the queue sync, the
\* stage of a busy item only through its worker or the commander
AdvancedBy(id) ==
    \/ /\ items[id].status = "Processing"
       /\ lastOp'.op \in {"WorkerComplete", "Settle"}
       /\ lastOp'.id = id
    \/ /\ items[id].stage = Import
       /\ items[id].status = "Pending"
       /\ lastOp'.op = "SynchroniseQueue"

\* C5 as claimed: every advance of a stage is applied to an item whose
\* Status is Processing.
C5_AdvanceOnlyFromProcessing ==
    [][\A id \in ItemIDs :
         (SameItem(id) /\ items'[id].stage # items[id].stage) =>
            items[id].status = "Processing"]_vars

\* C5, amended: a stage is advanced from Processing by the item's worker
\* (OnComplete) or the commander, and from Pending by the hold of the queue
\* sync, which releases Import items nobody picked; an advance asked for an
\* item in another status leaves its Stage and Status as they were (a
\* Cancelling item is then released to Cancelled).
C5_AdvanceFromProcessingOrHold ==
    [][\A id \in ItemIDs :
         /\ (SameItem(id) /\ items'[id].stage # items[id].stage) => AdvancedBy(id)
         /\ (/\ lastOp'.op = "WorkerComplete"
             /\ lastOp'.id = id
             /\ InQueue(id)
             /\ items[id].status # "Processing") =>
               /\ items'[id].stage = items[id].stage
               /\ \/ items'[id].status = items[id].status
                  \/ items[id].status = "Cancelling" /\ items'[id].status = "Cancelled"]_vars

\* the queue sync has released a Pending item from Import
C5_Witness ==
    /\ lastOp.op = "SynchroniseQueue"
    /\ \E id \in Range(queue) :
         /\ items[id].stage = Title
         /\ items[id].status = "Pending"
         /\ fs[items[id].path] # NoFile
         /\ Age(items[id].path) > ModtimeThreshold

\* an item is at Import before the step, or is pushed by it
AtImportBefore(id) == items[id].path = 0 \/ items[id].stage = Import

LeavesImportOnlyWhenStable ==
    \A id \in ItemIDs :
       (/\ items'[id].path # 0
        /\ items'[id].stage # Import
        /\ AtImportBefore(id)) =>
          /\ fs[items'[id].path] # NoFile
          /\ Age(items'[id].path) >= ModtimeThreshold

\* nothing has left Import a minute after the first file can have appeared
HeldAtOneMinute ==
    now <= 1 =>
       \A id \in Range(queue) :
          items[id].stage = Import /\ items[id].status = "Pending"

\* C6: no item leaves Stage=Import while the age of its file's modification
\* time is below 120 s; an item admitted at t=0 with mtime=0 is at Import,
\* Pending after the tick at t=60 s.
C6_StabilityGateHolds == []HeldAtOneMinute /\ [][LeavesImportOnlyWhenStable]_vars

\* the tick at t=60 s has left the item of a file written at t=0 at Import
C6_Witness ==
    /\ lastOp.op = "SynchroniseQueue"
    /\ now = 1
    /\ \E id \in Range(queue) :
         /\ fs[items[id].path] = 0
         /\ items[id].stage = Import
         /\ items[id].status = "Pending"

\* C7 as claimed: a tick advances every Import item whose file is 120 s old
\* or older, exactly 120 s included.
C7_AdvancesAtThreshold ==
    [][lastOp'.op = "SynchroniseQueue" =>
         \A id \in Range(queue') :
            (AtImportBefore(id) /\ Age(items'[id].path) >= ModtimeThreshold) =>
               items'[id].stage = Title]_vars

\* C7, amended: a tick advances to Title every Import item whose file is
\* more than 120 s old, whatever its position in the queue and the stages
\* of the items before it, and leaves at Import those whose file is 120 s
\* old or younger.
C7_AdvancesPastThreshold ==
    [][lastOp'.op = "SynchroniseQueue" =>
         \A id \in Range(queue') :
            AtImportBefore(id) =>
               IF Age(items'[id].path) > ModtimeThreshold
               THEN items'[id].stage = Title /\ items'[id].status = "Pending"
               ELSE items'[id].stage = Import]_vars

\* a tick has released the second item of the queue behind an item that is
\* further down the pipeline
C7_Witness ==
    /\ lastOp.op = "SynchroniseQueue"
    /\ Len(queue) = 2
    /\ items[queue[1]].stage >= Omdb
    /\ items[queue[2]].stage = Title
    /\ items[queue[2]].status = "Pending"
    /\ Age(items[queue[2]].path) = ModtimeThreshold + 1
    /\ now = MaxTime

\* C8: CancelItem(id) on an item whose Status is Pending or NeedsResolving
\* sets its Status to Cancelled at once, leaves its Stage and returns no
\* error.
C8_IdleCancelledAtOnce ==
    [][\A id \in ItemIDs :
         (/\ lastOp'.op = "CancelItem"
          /\ lastOp'.id = id
          /\ InQueue(id)
          /\ items[id].status \in {"Pending", "NeedsResolving"}) =>
            /\ ~lastOp'.err
            /\ items'[id].status = "Cancelled"
            /\ items'[id].stage = items[id].stage]_vars

\* C9: CancelItem(id) on a busy item (Processing) sets Cancelling, not
\* Cancelled; a Cancelling item only ever becomes Cancelled, and does so
\* when its worker or the commander releases it.
C9_BusyCancelling ==
    [][\A id \in ItemIDs :
         /\ (/\ lastOp'.op = "CancelItem"
             /\ lastOp'.id = id
             /\ InQueue(id)
             /\ items[id].status = "Processing") =>
               ~lastOp'.err /\ items'[id].status = "Cancelling"
         /\ (SameItem(id) /\ items[id].status = "Cancelling") =>
               items'[id].status \in {"Cancelling", "Cancelled"}
         /\ (/\ items[id].status = "Cancelling"
             /\ InQueue(id)
             /\ lastOp'.op \in {"WorkerComplete", "WorkerFail", "Settle"}
             /\ lastOp'.id = id) =>
               items'[id].status = "Cancelled"]_vars

\* a worker has released an item cancelled while it was busy
C9_Witness ==
    /\ lastOp.op = "WorkerComplete"
    /\ InQueue(lastOp.id)
    /\ items[lastOp.id].status = "Cancelled"

HasRunning(id) == \E t \in Targets : tasks[id][t] = "Running"

StillDiscovered == {id \in Range(queue) : fs[items[id].path] # NoFile}

\* the filter step leaves the item alone: the tick changes it only by
\* releasing it from the Import hold
UntouchedByFilter(id) ==
    /\ id \in Range(queue')
    /\ items'[id] = CheckModtime(items[id])

\* C11: an item whose path the tick no longer discovers is marked Cancelled
\* and its transcode tasks are cancelled before it is filtered out, whatever
\* its stage and status were; the items still discovered stay in the queue
\* with their ItemID, Stage, Status and relative order.
C11_GoneCancelledThenFiltered ==
    [][lastOp'.op = "SynchroniseQueue" =>
         /\ \A r \in lastOp'.removed :
               /\ r.status = "Cancelled"
               /\ \A t \in Targets : tasks'[r.id][t] \in {"None"} \cup TaskTerminal
         /\ \A id \in StillDiscovered : UntouchedByFilter(id)
         /\ SelectSeq(queue', LAMBDA id : id \in Range(queue))
              = SelectSeq(queue, LAMBDA id : id \in StillDiscovered)]_vars

\* C12: an item leaves the queue only with Status Cancelled or Completed
\* and with no transcode task of it still queued, running or suspended.
C12_RemovedOnlyWhenTerminal ==
    [][\A id \in Range(queue) \ Range(queue') :
         /\ lastOp'.op = "SynchroniseQueue"
         /\ \E r \in lastOp'.removed :
               /\ r.id = id
               /\ r.status \in {"Cancelled", "Completed"}
         /\ \A t \in Targets : tasks'[id][t] \in {"None"} \cup TaskTerminal]_vars

\* C13: a queue synchronisation that directly follows another one, with the
\* same files and the same clock reading, pushes, removes, cancels and
\* advances nothing: the queue, the items and the tasks stay as the first
\* run left them.
C13_SyncIdempotent ==
    [][(lastOp'.op = "SynchroniseQueue" /\ lastOp'.again) =>
         /\ queue' = queue
         /\ items' = items
         /\ tasks' = tasks
         /\ nextID' = nextID
         /\ lastOp'.removed = {}]_vars

\* a second run has followed a run that released an item from the hold
C13_Witness ==
    /\ lastOp.op = "SynchroniseQueue"
    /\ lastOp.again
    /\ \E id \in Range(queue) :
         /\ items[id].stage = Title
         /\ items[id].status = "Pending"
         /\ fs[items[id].path] # NoFile
         /\ Age(items[id].path) > ModtimeThreshold

\* no ItemID and no Path occurs twice in the queue
QueueDistinct ==
    \A i, j \in DOMAIN queue :
       i # j => /\ queue[i] # queue[j]
                /\ items[queue[i]].path # items[queue[j]].path

\* an item keeps its Path under its ItemID, and a new item gets a fresh ID
ItemIDStable ==
    /\ \A id \in Range(queue) \cap Range(queue') : items'[id].path = items[id].path
    /\ \A id \in Range(queue') \ Range(queue) : id >= nextID /\ id < nextID'

\* C14: whatever ticks, reorders, promotions and filters happened, no two
\* items of the queue share a Path or an ItemID, an ItemID stays with its
\* item, and a scan adds no second item for a path already in the queue.
C14_UniquePathAndID == []QueueDistinct /\ [][ItemIDStable]_vars

\* a scan has run over a reordered queue and added a third item to it
C14_Witness ==
    /\ lastOp.op = "SynchroniseQueue"
    /\ Len(queue) = 3
    /\ queue[1] > queue[2]

\* C15: a tick reloads the exclusion list before it pushes, and admits no
\* path that is in the exclusion list.
C15_ExcludedNeverAdmitted ==
    [][lastOp'.op = "SynchroniseQueue" =>
         /\ excluded' = cache
         /\ \A id \in Range(queue') \ Range(queue) : items'[id].path \notin cache]_vars

\* a tick has found the file of a completed item back in the import
\* directory, and has not admitted it
C15_Witness ==
    /\ lastOp.op = "SynchroniseQueue"
    /\ \E p \in cache :
         /\ fs[p] # NoFile
         /\ \A id \in Range(queue) : items[id].path # p

\* the step is the call op(id) on an item of the queue
Called(op, id) ==
    /\ lastOp'.op = op
    /\ lastOp'.id = id
    /\ InQueue(id)

\* Pause has been invoked on every instance of the item
AllPaused(id) ==
    \A t \in Targets :
       tasks'[id][t] = IF tasks[id][t] = "Running" THEN "Suspended" ELSE tasks[id][t]

\* Resume has been invoked on every instance of the item
AllResumed(id) ==
    \A t \in Targets :
       tasks'[id][t] = IF tasks[id][t] = "Suspended" THEN "Running" ELSE tasks[id][t]

C17_ResumeResumesEveryTask ==
    [][\A id \in ItemIDs :
         (Called("ResumeItem", id) /\ items[id].status = "Paused") =>
            /\ ~lastOp'.err
            /\ items'[id].status = "Processing"
            /\ AllResumed(id)]_vars

\* C18: PauseItem(id) on an item whose Status is not Processing is rejected
\* and changes neither the item's Status nor any encoder task.
C18_PauseOnlyFromProcessing ==
    [][\A id \in ItemIDs :
         (Called("PauseItem", id) /\ items[id].status # "Processing") =>
            /\ lastOp'.err
            /\ items'[id].status = items[id].status
            /\ tasks' = tasks]_vars

ByItemID == {"GetItem", "PromoteItem", "CancelItem", "PauseItem", "ResumeItem"}

\* C19: GetItem, PromoteItem, CancelItem, PauseItem and ResumeItem called
\* with an ItemID that is not in the queue return an error and change
\* neither the queue order, nor an item, nor an encoder task.
C19_NotFoundChangesNothing ==
    [][\A id \in ItemIDs :
         (/\ lastOp'.op \in ByItemID
          /\ lastOp'.id = id
          /\ ~InQueue(id)) =>
            /\ lastOp'.err
            /\ UNCHANGED <<queue, items, tasks>>]_vars

\* an operation has been refused for the ItemID of an item that has left
\* the queue, with another item in the queue
C19_Witness ==
    /\ lastOp.op \in ByItemID
    /\ lastOp.err
    /\ lastOp.id < nextID
    /\ ~InQueue(lastOp.id)
    /\ queue # <<>>

\* the containers are closed only with the context cancelled, the
\* wait-group joined, and the worker pool and the commander returned, or
\* never started
ContainersClosedLast ==
    life.adapters = "closed" =>
       /\ life.ctx = "cancelled"
       /\ life.wg = 0
       /\ life.pool \in {"idle", "returned"}
       /\ life.commander \in {"idle", "returned"}

\* the pool is closed after the context is cancelled, and Stop passes the
\* join after the pool is closed and the wait-group is empty
StopInOrder ==
    /\ (life.pool = "running" /\ life'.pool = "closed") => life.ctx = "cancelled"
    /\ (life.pc = "stop_wait" /\ life'.pc = "stop_docker") =>
          /\ life.pool # "running"
          /\ life.wg = 0
    /\ (life.adapters = "open" /\ life'.adapters = "closed") => life.pc = "stop_docker"

\* C20: Stop cancels the root context first, then closes the worker pool,
\* then joins the shutdown wait-group, and closes the containers only after
\* that join, when the worker pool and the commander have returned.
C20_ShutdownOrdering == []ContainersClosedLast /\ [][StopInOrder]_vars

\* the process has stopped after its commander cancelled an encoder and
\* its pool returned
C20_Witness ==
    /\ life.pc = "stopped"
    /\ life.adapters = "closed"
    /\ life.pool = "returned"
    /\ life.commander = "returned"
    /\ \E id \in Range(queue) : \E t \in Targets : tasks[id][t] = "Cancelled"

\* no encoder task is queued, running or suspended
NoLiveEncoder == \A id \in ItemIDs : Unfinished(id) = {}

\* C21: when Stop has passed the join of the wait-group, and so when it has
\* returned, every encoder task ever submitted is Complete, Failed or
\* Cancelled: none is Queued, Running or Suspended.
C21_NoOrphanEncoders ==
    life.pc \in {"stop_docker", "stopped"} => NoLiveEncoder

\* Stop has returned with one encoder finished by itself and one cancelled
\* by the shutdown
C21_Witness ==
    /\ life.pc = "stopped"
    /\ life.commander = "returned"
    /\ \E id \in ItemIDs : \E t1, t2 \in Targets :
          /\ tasks[id][t1] = "Complete"
          /\ tasks[id][t2] = "Cancelled"

\* initialise returned an error: Stop ran with nothing started
StartFailed == life.pc # "new" /\ life.pool = "idle"

\* C22 as claimed: a process that has terminated did so with status 1 when
\* startup failed and with status 0 otherwise, and a process whose startup
\* failed is never left waiting for a signal once Thea has cleaned up.
C22_ExitContract ==
    /\ life.main = "exited" => life.exit = (IF StartFailed THEN 1 ELSE 0)
    /\ ~(StartFailed /\ life.gateways = "closed" /\ life.main = "wait_signal")

\* the root context is cancelled by the watcher of the support services, by
\* the main goroutine after a signal, or by Stop itself
CancelledByEscalation ==
    (life.ctx = "live" /\ life'.ctx = "cancelled") =>
       \/ lastOp'.op = "ServiceCrash"
       \/ lastOp'.op = "MainCancel" /\ life.signal
       \/ lastOp'.op = "StopCancelContext" /\ life.pc = "stop_cancel"

\* the event loop is left only after a signal or with the context cancelled
LoopEndsOnEscalation ==
    (life.pc = "loop" /\ life'.pc # "loop") =>
       /\ life'.pc = "stop_cancel"
       /\ life.signal \/ life.ctx = "cancelled"

\* the failure of a worker's task or of an encoder leaves the lifecycle alone
ItemErrorsStayLocal ==
    (lastOp'.op \in {"WorkerFail", "TaskExit"}) => life' = life

\* C23: an asynchronous error of a support service after startup cancels
\* the root context, the event loop of Start then returns and Stop runs;
\* nothing but an OS signal or such a failure ends the loop, and the
\* errors of workers and encoders never cancel the root context.
C23_Escalation ==
    /\ [][CancelledByEscalation /\ LoopEndsOnEscalation /\ ItemErrorsStayLocal]_vars
    /\ [][lastOp'.op = "ServiceCrash" => life'.ctx = "cancelled"]_vars
    /\ (lastOp.op = "ServiceCrash") ~> (life.pc # "loop")

\* Stop has run to its end after a service crash, with no signal delivered
\* and after a worker's task had failed
C23_Witness ==
    /\ life.pc = "stopped"
    /\ ~life.signal
    /\ life.pool = "returned"
    /\ \E id \in Range(queue) : items[id].status = "NeedsAttention"

\* C28 as claimed: when ExportItem returns no error the item's model is in
\* the database and the item is marked Completed in the queue.
C28_ExportSavesAndCompletes ==
    [][(lastOp'.op = "ExportItem" /\ ~lastOp'.err) =>
          /\ lastOp'.id \in exported'
          /\ items'[lastOp'.id].status = "Completed"]_vars

\* C29: ResumeItem on an item of the queue whose Status is not Paused
\* returns an error and changes neither the item's Status nor any encoder
\* task.
C29_ResumeOnlyFromPaused ==
    [][\A id \in ItemIDs :
         (/\ lastOp'.op = "ResumeItem"
          /\ lastOp'.id = id
          /\ InQueue(id)
          /\ items[id].status # "Paused") =>
            /\ lastOp'.err
            /\ items' = items
            /\ tasks' = tasks]_vars

\* ResumeItem has been refused for an item that is Processing with a
\* suspended encoder
C29_Witness ==
    /\ lastOp.op = "ResumeItem"
    /\ lastOp.err
    /\ InQueue(lastOp.id)
    /\ items[lastOp.id].status = "Processing"
    /\ \E t \in Targets : tasks[lastOp.id][t] = "Suspended"

\* C30 as claimed: CancelItem on an item whose Status is Cancelled,
\* Cancelling or Completed returns an error, leaves the Status unchanged and
\* invokes Cancel on none of the item's tasks.
C30_FinishedCancelRejected ==
    [][\A id \in ItemIDs :
         (/\ lastOp'.op = "CancelItem"
          /\ lastOp'.id = id
          /\ InQueue(id)
          /\ items[id].status \in {"Cancelled", "Cancelling", "Completed"}) =>
            /\ lastOp'.err
            /\ items'[id].status = items[id].status
            /\ tasks'[id] = tasks[id]]_vars

\* C24: SaveEpisode writes the series, the season and the episode, in that
\* order, in one transaction: after the call either all three rows are in
\* the database or none is, and when it returned no error the in-memory keys
\* satisfy episode.SeasonID = season.ID and season.SeriesID = series.ID.
C24_SaveEpisodeAtomic ==
    store.pc = "returned" =>
       IF store.err
       THEN store.rows = <<>>
       ELSE /\ store.rows = <<"series", "season", "episode">>
            /\ store.keys.episodeFK = store.keys.seasonID
            /\ store.keys.seasonFK = store.keys.seriesID

\* a save has succeeded on models that came with other keys than the
\* database gave them
C24_Witness ==
    /\ store.pc = "returned"
    /\ ~store.err
    /\ store.old.seriesID \notin {NoKey, store.keys.seriesID}
    /\ store.old.seasonFK = store.old.seriesID
    /\ store.keys.seasonFK = store.keys.seriesID

\* no two profiles of the list have the same tag
TagsUnique ==
    \A i, j \in DOMAIN profiles.list :
       i # j => profiles.list[i] # profiles.list[j]

\* C25 as claimed: under every interleaving of concurrent InsertProfile and
\* RemoveProfile calls no two profiles of the list have the same tag, and
\* an InsertProfile whose tag is in the list returns an error and leaves the
\* list unchanged.
C25_TagsStayUnique ==
    /\ [](profiles.pc = "ready" => TagsUnique)
    /\ [][(/\ profiles.pc = "ready"
           /\ lastOp'.op = "InsertProfile"
           /\ FindProfileByTag(profiles.list, lastOp'.id) # -1
           /\ Inserting = {}) =>
             (lastOp'.err /\ profiles'.list = profiles.list)]_vars

\* s[i..j] is not empty and every character of it is in the class
AllIn(s, i, j, class) == i <= j /\ \A n \in i..j : s[n] \in class

\* two consecutive season/episode groups preceded by a title
HasEpisodeTag(s) ==
    \E i, j, k, l \in DOMAIN s :
       /\ i < j /\ j < k /\ k < l
       /\ AllIn(s, i, j - 1, WordOrDot)
       /\ s[j] \in SeasonTag
       /\ AllIn(s, j + 1, k - 1, Digits)
       /\ s[k] \in SeasonTag
       /\ AllIn(s, k + 1, l, Digits)

\* a four-digit year that starts with 19 or 20
HasYear(s) ==
    \E i \in DOMAIN s :
       /\ i + 3 <= Len(s)
       /\ <<s[i], s[i + 1]>> \in {<<"1", "9">>, <<"2", "0">>}
       /\ s[i + 2] \in Digits
       /\ s[i + 3] \in Digits

\* C27: FormatTitle returns an error exactly when the name has neither two
\* consecutive [SsEe]<digits> groups preceded by a title nor a four-digit
\* year starting with 19 or 20, and returns the name without error
\* otherwise: a name of letters and underscores only fails, a name with a
\* title and a season/episode tag, or with 2010 in it, succeeds.
C27_FormatTitleErrors ==
    title.pc = "returned" =>
       /\ title.err <=> ~(HasEpisodeTag(title.name) \/ HasYear(title.name))
       /\ ~title.err => title.out = title.name
       /\ (\A n \in DOMAIN title.name : title.name[n] = "x") => title.err
       /\ (\E n \in DOMAIN title.name :
              /\ n + 3 <= Len(title.name)
              /\ SubSeq(title.name, n, n + 3) = <<"2", "0", "1", "0">>) => ~title.err

\* a name with a title and a season/episode tag, and no year, was accepted
C27_Witness ==
    /\ title.pc = "returned"
    /\ ~title.err
    /\ title.name = <<"x", "S", "2", "S", "9">>
    /\ ~HasYear(title.name)

\* the stages a worker of the pool serves
WorkerStages == {WorkerStage(w) : w \in Sleepers}

\* item id waits at the stage for a worker
WaitsAt(id, stage) ==
    InQueue(id) /\ items[id].stage = stage /\ items[id].status = "Pending"

\* the signals are left by the second statement of AdvanceItem only, with
\* the stage already advanced, and they are left for every worker
WokenAfterApplied ==
    /\ \A w \in Sleepers :
          (wake.st[w] = "busy" /\ wake'.st[w] # "busy") =>
             /\ wake'.st[w] = "advanced"
             /\ wake'.sig = wake.sig
             /\ items'[holder[w]] = AdvanceStage(items[holder[w]])
    /\ (\E w \in Sleepers : ~wake.sig[w] /\ wake'.sig[w]) =>
          /\ \A w \in Sleepers : wake'.sig[w]
          /\ items' = items
          /\ \/ wake.tick = "advanced" /\ wake'.tick = "idle"
             \/ \E w \in Sleepers : wake.st[w] = "advanced" /\ wake'.st[w] = "poll"

HasIncompleteInstance(id) == \E t \in GetInstancesForItem(id) : tasks[id][t] # "Complete"

\* C31: ExportItem returns an error and saves nothing when the item is not
\* Processing at the Database stage, when it is an episode whose season or
\* episode number is -1, or when one of its encoder instances is not
\* COMPLETE; the item's Stage and Status stay as they were.
C31_ExportRefuses ==
    [][(/\ lastOp'.op = "ExportItem"
        /\ \/ items[lastOp'.id].stage # Database
           \/ items[lastOp'.id].status # "Processing"
           \/ ~lastOp'.numbered
           \/ HasIncompleteInstance(lastOp'.id))
       => /\ lastOp'.err
          /\ exported' = exported
          /\ items' = items]_vars

\* ExportItem has refused an item that is Processing at Database, with its
\* numbers in order, for an encoder instance that is still running
C31_Witness ==
    /\ lastOp.op = "ExportItem"
    /\ lastOp.err
    /\ lastOp.numbered
    /\ items[lastOp.id].stage = Database
    /\ items[lastOp.id].status = "Processing"
    /\ \E t \in Targets : tasks[lastOp.id][t] = "Running"
    /\ \E t \in Targets : tasks[lastOp.id][t] = "Complete"
    /\ lastOp.id \notin exported

\* ------------------------------------------------------------------ C32
\* C32: when the transaction of SaveEpisode fails at the series, the season
\* or the episode save, episode.ID, season.ID, series.ID, episode.SeasonID
\* and season.SeriesID have the values they had before the call, and the
\* error is returned.
C32_KeysRolledBack ==
    (/\ store.pc = "returned"
     /\ store.failAt \in {FailsSeries, FailsSeason, FailsEpisode})
    => /\ store.err
       /\ store.keys = store.old

\* the episode save has failed after the series and the season were given
\* keys other than the ones they came with, and the season was linked to
\* another series before
C32_Witness ==
    /\ store.pc = "returned"
    /\ store.failAt = FailsEpisode
    /\ store.err
    /\ store.old.seriesID # store.given.series
    /\ store.old.seasonID # store.given.season
    /\ store.old.seasonFK # store.given.series
    /\ store.old.episodeFK # store.given.season
    /\ store.keys = store.old

\* ------------------------------------------------------------------ C33
\* a part of the workflow is what the parameter points to, or what it was
\* when the parameter is nil
PartAfter(param, before) == IF param = <<>> THEN before ELSE param[1]

\* C33: UpdateWorkflow changes the parts whose parameter is not nil and
\* leaves the others as they were; when a sub-update or the transaction
\* fails nothing is changed and no workflow is returned; a foreign-key
\* violation on the workflow-target association comes back as
\* ErrWorkflowTargetIDMissing.
C33_UpdateWorkflow ==
    workflow.pc = "returned" =>
       LET failed == FailedUpdate(workflow.args, workflow.failAt) IN
       /\ failed = NoFailure =>
             /\ workflow.err = NoError
             /\ workflow.out = <<workflow.row>>
             /\ workflow.row.label =
                    PartAfter(workflow.args.newLabel, workflow.before.label)
             /\ workflow.row.enabled =
                    PartAfter(workflow.args.newEnabled, workflow.before.enabled)
             /\ workflow.row.criteria =
                    PartAfter(workflow.args.newCriteria, workflow.before.criteria)
             /\ workflow.row.targets =
                    PartAfter(workflow.args.newTargetIDs, workflow.before.targets)
       /\ failed # NoFailure =>
             /\ workflow.err # NoError
             /\ workflow.out = <<>>
             /\ workflow.row = workflow.before
       /\ (/\ failed \in {FailsRowUpdate, FailsCriteriaUpdate, FailsTargetsUpdate}
           /\ workflow.error.pq
           /\ workflow.error.code = PgFkConstraintViolationCode
           /\ workflow.error.table = "workflow_transcode_targets")
          => workflow.err = ErrWorkflowTargetIDMissing

\* the update of the targets has failed on a missing target after a new
\* label and new criteria were written inside the transaction
C33_Witness ==
    /\ workflow.pc = "returned"
    /\ workflow.failAt = FailsTargetsUpdate
    /\ workflow.args.newTargetIDs # <<>>
    /\ workflow.args.newLabel # <<>>
    /\ workflow.args.newLabel[1] # workflow.before.label
    /\ workflow.args.newCriteria # <<>>
    /\ workflow.args.newCriteria[1] # workflow.before.criteria
    /\ workflow.err = ErrWorkflowTargetIDMissing
    /\ workflow.row = workflow.before

\* ------------------------------------------------------------------ C34
\* C34 as claimed: a PromoteItem(id) that runs while other callers reorder
\* the queue and the tick pushes and filters items, and that returns no
\* error, leaves the item with ItemID id at index 0, and the queue holds
\* the same items as before, each once.
C34_PromoteAtomic ==
    [][(lastOp'.op = "PromoteItem" /\ ~lastOp'.err) =>
          /\ queue' # <<>>
          /\ queue'[1] = lastOp'.id
          /\ IsPermutationOf(queue', Range(queue))]_vars

\* ------------------------------------------------------------------ C35
Terminal(id) == items[id].path # 0 /\ items[id].status \in {"Cancelled", "Completed"}

\* the visitor of the tick, AdvanceItem, SetPaused and the switch of
\* CancelItem applied to a Cancelled or Completed item at the stage, for
\* every file of the import directory, leave its Status and Stage alone
FinishedItemsKept(stage) ==
    \A p \in Paths, status \in {"Cancelled", "Completed"} :
       LET it == [path |-> p, stage |-> stage, status |-> status] IN
       /\ CheckModtime(it) = it
       /\ AdvanceItem(it) = it
       /\ SetPaused(it, TRUE) = it
       /\ SetPaused(it, FALSE) = it
       /\ CancelSwitch(it).item = it

StopStep(pc) ==
    CASE pc = "stop_cancel" -> 1
      [] pc = "stop_close"  -> 2
      [] pc = "stop_wait"   -> 3
      [] pc = "stop_docker" -> 4
      [] pc = "stopped"     -> 5
      [] OTHER              -> 0

\* Start returns only into the first statement of Stop, and Stop goes
\* through its statements one after the other, none of them twice
StopRunsOnce ==
    /\ (StopStep(life.pc) = 0 /\ StopStep(life'.pc) # 0) => life'.pc = "stop_cancel"
    /\ StopStep(life.pc) # 0 =>
          StopStep(life'.pc) \in {StopStep(life.pc), StopStep(life.pc) + 1}
    /\ lastOp'.op \in {"Start", "LoopExit"} /\ life'.pc # "loop" =>
          life'.pc = "stop_cancel"

\* a tick of either ticker is taken only in the event loop, which begins
\* after initialise has succeeded
TicksOnlyInLoop ==
    lastOp'.op \in {"SynchroniseQueue", "SubmitUpdates"} =>
       /\ life.pc = "loop"
       /\ life.pool # "idle"
       /\ life.commander # "idle"

\* the wait-group counts the worker pool and the commander, each from its
\* start to its return, and nothing else: the join is passed at once when
\* neither was started
JoinCountsPoolAndCommander ==
    /\ life.wg = Cardinality({s \in {"pool", "commander"} :
                                 life[s] \in {"running", "closed"}})
    /\ life.pool = "idle" <=> life.commander = "idle"
    /\ (life.pc = "stop_wait" /\ life.pool = "idle") => life.wg = 0

\* C36: every return from Start (initialise failed, interrupt, cancelled
\* context) runs Stop, once; no tick of the queue or of the updates is
\* taken before initialise has succeeded; the join in Stop waits for the
\* worker pool and the commander when they were started and for nothing
\* when initialise failed before that.
C36_StartStop ==
    /\ []JoinCountsPoolAndCommander
    /\ [][StopRunsOnce /\ TicksOnlyInLoop]_vars

\* initialise failed and Stop has passed its join with nothing started
C36_Witness ==
    /\ lastOp.op = "StopWait"
    /\ life.pc = "stop_docker"
    /\ life.pool = "idle"
    /\ life.commander = "idle"
    /\ life.wg = 0
    /\ life.ctx = "cancelled"

\* ------------------------------------------------------------------ C37
\* the list without its i-th profile
CutAt(list, i) == SubSeq(list, 1, i - 1) \o SubSeq(list, i + 1, Len(list))

\* C37 as claimed: a RemoveProfile(tag) that returns no error has removed
\* one profile, one with that tag, and left the others in their order,
\* whatever other InsertProfile and RemoveProfile calls run beside it; a
\* RemoveProfile of a tag that is not in the list returns an error and
\* leaves the list as it was.
C37_RemoveExact ==
    [][lastOp'.op = "RemoveProfile" =>
          /\ ~lastOp'.err =>
                \E i \in DOMAIN profiles.list :
                   /\ profiles.list[i] = lastOp'.id
                   /\ profiles'.list = CutAt(profiles.list, i)
          /\ FindProfileByTag(profiles.list, lastOp'.id) = -1 =>
                /\ lastOp'.err
                /\ ~profiles'.panicked
                /\ profiles'.list = profiles.list]_vars

\* ------------------------------------------------------------------ C38
\* C38: SpawnContainer with a label in use returns an error, starts no
\* container and leaves the wait-group alone; a SpawnContainer that fails
\* because the container did not start leaves the wait-group at the count
\* it had, and no monitor runs for that container.
C38_SpawnFailures ==
    [][\A label \in Labels :
          (lastOp'.op = "SpawnContainer" /\ lastOp'.id = label) =>
             /\ label \in docker.containers =>
                   /\ lastOp'.err
                   /\ docker'.started = docker.started
                   /\ docker'.wg = docker.wg
                   /\ docker'.monitors = docker.monitors
             /\ (label \notin docker.containers /\ label \notin docker'.monitors) =>
                   /\ lastOp'.err
                   /\ docker'.wg = docker.wg
                   /\ docker'.monitors = docker.monitors
                   /\ label \in docker'.closed]_vars

\* a container has failed to start beside two others whose monitors run
C38_Witness ==
    /\ lastOp.op = "SpawnContainer"
    /\ lastOp.err
    /\ lastOp.id \in docker.closed
    /\ lastOp.id \notin docker.monitors
    /\ docker.wg = 2
    /\ Cardinality(docker.monitors) = 2

\* ------------------------------------------------------------------ C40
\* the flush has delivered one ITEM update for each ID received since the
\* last flush, however often it was received, and nothing is left pending
FlushedOncePerID ==
    lastOp'.op = "submitUpdates" =>
       /\ updates'.pending = {}
       /\ Len(updates'.sent) = Cardinality(Range(updates.received))
       /\ {updates'.sent[i].ItemId : i \in DOMAIN updates'.sent} = Range(updates.received)
       /\ \A i \in DOMAIN updates'.sent :
             LET u == updates'.sent[i] IN
             /\ u.UpdateType = ITEM
             /\ IF InQueue(u.ItemId)
                THEN /\ u.QueueItem = u.ItemId
                     /\ u.ItemPosition >= 0
                     /\ queue[u.ItemPosition + 1] = u.ItemId
                ELSE /\ u.QueueItem = NoItem
                     /\ u.ItemPosition = -1

\* the ID -1 goes out at once as one QUEUE update and is not kept
QueueChangeSentAtOnce ==
    (lastOp'.op = "handleUpdateStream" /\ lastOp'.id = QueueChanged) =>
       /\ updates'.sent = <<ProcessorUpdate(QUEUE, NoItem, 0, 0)>>
       /\ updates'.pending = updates.pending

\* C40: the IDs received on UpdateChan between two flushes are coalesced:
\* the next flush delivers exactly one ITEM update for each distinct ID and
\* leaves nothing pending; the ID -1 is delivered at once as a QUEUE update
\* and is never pending; an ID whose item has left the queue is delivered
\* with no item and position -1.
C40_UpdatesCoalesced ==
    /\ [](updates.pc = "listening" => QueueChanged \notin updates.pending)
    /\ [][FlushedOncePerID /\ QueueChangeSentAtOnce]_vars

\* a flush has delivered two updates: one for the item at index 1 of the
\* queue and one for an ID that no item of the queue has
C40_Witness ==
    /\ lastOp.op = "submitUpdates"
    /\ updates.pending = {}
    /\ Len(updates.sent) = 2
    /\ \E i, j \in DOMAIN updates.sent :
          /\ updates.sent[i].ItemPosition = 1
          /\ updates.sent[i].QueueItem = updates.sent[i].ItemId
          /\ updates.sent[j].ItemPosition = -1
          /\ updates.sent[j].QueueItem = NoItem
          /\ updates.sent[j].ItemId \notin Range(queue)

====
